---- MODULE Spec2Model ----
(***************************************************************************)
(* Token-authority service of amplify-stateless-microservice:             *)
(* the single-writer CommandProcessor (auth_service/commands.py) and the  *)
(* validation path and cache warm of the auth API (auth_service/api.py),  *)
(* over a Durable Store (PostgreSQL), a Validation Cache, a Revocation    *)
(* Set, a Command Queue and rendezvous slots (all Redis).                 *)
(* Every await of the Python code is one step of the model, so that the   *)
(* coroutines interleave exactly where the event loop lets them.          *)
(***************************************************************************)
EXTENDS Integers, Sequences, FiniteSets, TLC

----------------------------------------------------------------------------
(* Bounds of the model *)

\* rpush calls onto auth:commands in one behaviour
MaxCmds == 2
\* the clock runs from 0 to MaxTime
MaxTime == 1
\* awaited store calls of the processor that raise in one behaviour
MaxFaults == 1
\* polls of one submit_command call (max_wait, 50 in the code, scaled down)
MaxWait == 1
\* submit_command calls in one behaviour of StoreSpec and of WaitSpec
MaxCalls == 1

----------------------------------------------------------------------------
(* Values *)

\* Python None / SQL NULL, and the empty string / empty hash of Redis
None == <<>>
EmptyStr == <<>>
Nil == [nil |-> TRUE]

LoopIds == {1, 2}
ValIds == {1}

\* CommandType
CREATE_TOKEN == "create_token"
REVOKE_TOKEN == "revoke_token"
EXTEND_TOKEN == "extend_token"
CommandType == {CREATE_TOKEN, REVOKE_TOKEN, EXTEND_TOKEN}

\* inputs of the requests
TtlChoices == {None, <<0>>}
ScopeChoices == {<<"read">>}
ExtendChoices == {0, 1}
RequiredChoices == {<<>>, <<"write">>}
\* a token_id that names no row
NoSuchId == 0

\* f"amp_live_{secrets.token_urlsafe(32)}": the n-th secret drawn
RawToken(n) == [amp_live |-> n]
\* hashlib.sha256(token.encode()).hexdigest(): one-way, injective on the secrets
Sha256(token) == [sha256 |-> token.amp_live]
\* a bearer string that was never issued
ForgedToken == RawToken(0)

\* f"response:{secrets.token_urlsafe(16)}": the key of the n-th submit_command
ResponseKey(n) == [response |-> n]

\* json.dumps / json.loads; a queue item that is not JSON has no json field
JsonDumps(obj) == [json |-> obj]
IsJson(text) == "json" \in DOMAIN text
JsonLoads(text) == text.json
NotJson == [bytes |-> "not json"]

\* datetime.isoformat / datetime.fromisoformat
IsoFormat(t) == <<"iso", t>>
FromIsoFormat(s) == s[2]

\* ",".join(scopes) and str.split(",")
RECURSIVE Join(_)
Join(scopes) ==
    IF Len(scopes) = 0 THEN EmptyStr
    ELSE IF Len(scopes) = 1 THEN <<scopes[1]>>
    ELSE <<scopes[1], ",">> \o Join(Tail(scopes))

RECURSIVE Split(_)
Split(str) ==
    IF Len(str) = 0 THEN <<>>
    ELSE IF str[1] = "," THEN Split(Tail(str))
    ELSE <<str[1]>> \o Split(Tail(str))

Range(s) == {s[i] : i \in DOMAIN s}

----------------------------------------------------------------------------
VARIABLES
    now,            \* the clock (datetime.now() and SQL NOW())
    tokens,         \* Durable Store: token_id -> row of table tokens (+ scopes)
    cache,          \* Validation Cache: token_hash -> hash fields of token:<hash>
    revoked_tokens, \* Revocation Set: the Redis set revoked_tokens
    queue,          \* Command Queue: the Redis list auth:commands
    slots,          \* rendezvous slots: response_key -> stored text
    running,        \* CommandProcessor.running
    task,           \* CommandProcessor._task (0 = None)
    loops,          \* the _process_loop tasks ever created
    stopping,       \* a stop() call is awaiting the task
    subs,           \* submit_command calls: seq -> position and outcome
    vals,           \* validate_token calls
    warm,           \* the _warm_cache call of the lifespan
    faults,         \* store calls that have raised so far
    pushed,         \* rpush calls so far (the seq of the last queue item)
    hist            \* history: what has happened to each queue item

vars == <<now, tokens, cache, revoked_tokens, queue, slots, running, task, loops,
          stopping, subs, vals, warm, faults, pushed, hist>>

storeVars == <<tokens, cache, revoked_tokens>>
procVars == <<running, task, loops, stopping>>

IdleLoop == [pc |-> "none", seq |-> 0, cmd |-> Nil, loc |-> Nil, result |-> Nil]
IdleVal == [pc |-> "idle", token |-> Nil, required |-> <<>>, data |-> Nil,
            verdict |-> Nil, afterRevoke |-> FALSE, expired |-> FALSE,
            reads |-> <<>>, prev |-> Nil]
IdleWarm == [pc |-> "off", rows |-> {}, cur |-> Nil]

\* the Durable Store outlives the process: at construction it holds the rows of
\* earlier runs, here one token that is neither revoked nor expiring
StoredRows ==
    (1 :> [token_hash |-> Sha256(RawToken(1)), name |-> "svc", scopes |-> <<"read">>,
           created_at |-> 0, expires_at |-> None,
           revoked |-> FALSE, revoked_at |-> None])

\* what the processor has done so far: nothing
NoHistory ==
    [dequeued |-> {}, started |-> {}, finished |-> {}, written |-> {},
     writeFailed |-> {}, revokeDone |-> {}, garbled |-> {}, raised |-> {},
     extended |-> {}, cacheRaised |-> {}, log |-> <<>>]

\* the state after construction: CommandProcessor.__init__ (not running, no
\* task); the Redis keys of earlier runs have expired
Init ==
    /\ now = 0
    /\ tokens = StoredRows
    /\ cache = <<>>
    /\ revoked_tokens = {}
    /\ queue = <<>>
    /\ slots = <<>>
    /\ running = FALSE
    /\ task = 0
    /\ loops = [i \in LoopIds |-> IdleLoop]
    /\ stopping = FALSE
    /\ subs = <<>>
    /\ vals = [v \in ValIds |-> IdleVal]
    /\ warm = IdleWarm
    /\ faults = 0
    /\ pushed = 0
    /\ hist = NoHistory

----------------------------------------------------------------------------
(* Redis and PostgreSQL primitives *)

Put(f, k, v) == [x \in DOMAIN f \cup {k} |-> IF x = k THEN v ELSE f[x]]
Drop(f, k) == [x \in DOMAIN f \ {k} |-> f[x]]

\* HSET key mapping: the fields are replaced; a key that exists keeps its TTL
HSet(c, h, fields) ==
    Put(c, h, [fields EXCEPT !.ttl = IF h \in DOMAIN c THEN c[h].ttl ELSE FALSE])
\* EXPIRE key seconds: a no-op on a key that does not exist
Expire(c, h) == IF h \in DOMAIN c THEN [c EXCEPT ![h].ttl = TRUE] ELSE c
\* DEL key
Del(c, h) == Drop(c, h)
\* HGETALL key: the empty map when the key does not exist
HGetAll(c, h) == IF h \in DOMAIN c THEN c[h] ELSE Nil
\* faulty variant of SAdd: a member that is added again is removed
SAddToggled(set, h) == IF h \in set THEN set \ {h} ELSE set \cup {h}
\* SADD / SISMEMBER on revoked_tokens
SAdd(set, h) == set \cup {h}
SIsMember(set, h) == h \in set
\* SETEX key 30 value
SetEx(s, k, text) == Put(s, k, [text |-> text, age |-> 0])
\* GET key: None when the key does not exist
Get(s, k) == IF k \in DOMAIN s THEN s[k].text ELSE None
\* faulty variant of RPush: the item is pushed at the head (LPUSH)
LPush(q, item) == <<item>> \o q
\* faulty variant of BLPopRest: the item is read and left at the head
BLPopKept(q) == q
\* RPUSH and the item BLPOP takes
RPush(q, item) == Append(q, item)
BLPopItem(q) == Head(q)
BLPopRest(q) == Tail(q)

\* SELECT ... WHERE t.token_hash = $1: the ids of the rows with that hash
RowsByHash(h) == {id \in DOMAIN tokens : tokens[id].token_hash = h}

Str(x) == [str |-> x]

\* the hash fields written for a row (commands.py 176-183, api.py 134-141, 250-257)
CacheFields(token_id, name, scopes, expires_at, revoked) ==
    [token_id |-> Str(token_id),
     name |-> name,
     scopes |-> IF Len(scopes) > 0 THEN Join(scopes) ELSE EmptyStr,
     expires_at |-> IF expires_at # None THEN IsoFormat(expires_at[1]) ELSE EmptyStr,
     revoked |-> IF revoked THEN "1" ELSE "0",
     ttl |-> FALSE]

----------------------------------------------------------------------------
(* CommandProcessor: start, stop, _process_loop *)

SetLoop(i, rec) == [loops EXCEPT ![i] = rec]
Note(field, x) == [hist EXCEPT ![field] = @ \cup {x}]
\* the processor's steps in the order they were taken
Log(h, ev, n) == [h EXCEPT !.log = Append(@, [ev |-> ev, seq |-> n])]

FreeLoops == {i \in LoopIds : loops[i].pc \in {"none", "done"}}
NewTask == CHOOSE i \in FreeLoops : \A j \in FreeLoops : i <= j

\* faulty variant of start: no check of the running flag
start_unguarded ==
    /\ ~stopping
    /\ FreeLoops # {}
    /\ running' = TRUE
    /\ task' = NewTask
    /\ loops' = SetLoop(NewTask, [IdleLoop EXCEPT !.pc = "top"])
    /\ UNCHANGED <<now, storeVars, queue, slots, stopping, subs, vals, warm, faults,
                   pushed, hist>>

\* start(): a no-op when running, else sets the flag and creates the loop task
start ==
    /\ ~stopping
    /\ IF running
       THEN UNCHANGED <<running, task, loops>>
       ELSE /\ FreeLoops # {}
            /\ running' = TRUE
            /\ task' = NewTask
            /\ loops' = SetLoop(NewTask, [IdleLoop EXCEPT !.pc = "top"])
    /\ UNCHANGED <<now, storeVars, queue, slots, stopping, subs, vals, warm, faults,
                   pushed, hist>>

\* stop(): clears the flag, then awaits the task (when there is one)
stop ==
    /\ ~stopping
    /\ warm.pc = "off"
    /\ running' = FALSE
    /\ stopping' = (task # 0)
    /\ UNCHANGED <<now, storeVars, queue, slots, task, loops, subs, vals, warm,
                   faults, pushed, hist>>

\* await self._task returns once the loop has ended
stop_return ==
    /\ stopping
    /\ loops[task].pc = "done"
    /\ stopping' = FALSE
    /\ UNCHANGED <<now, storeVars, queue, slots, running, task, loops, subs, vals,
                   warm, faults, pushed, hist>>

\* faulty variant of loop_check: `while True:`
loop_check_unconditional(i) ==
    /\ loops[i].pc = "top"
    /\ loops' = SetLoop(i, [loops[i] EXCEPT !.pc = "blpop"])
    /\ UNCHANGED <<now, storeVars, queue, slots, running, task, stopping, subs,
                   vals, warm, faults, pushed, hist>>

\* `while self.running:` evaluated by loop task i
loop_check(i) ==
    /\ loops[i].pc = "top"
    /\ loops' = SetLoop(i, [loops[i] EXCEPT !.pc = IF running THEN "blpop" ELSE "done"])
    /\ UNCHANGED <<now, storeVars, queue, slots, running, task, stopping, subs,
                   vals, warm, faults, pushed, hist>>

HandlerPcs == {"create_db", "create_hset", "create_expire",
               "revoke_db", "revoke_delete", "revoke_sadd",
               "extend_db", "extend_delete"}
InFlightPcs == HandlerPcs \cup {"respond", "respond_err"}

\* _process_command up to its first await: the handler chosen for cmd_type
Dispatch(cmd_type) ==
    IF cmd_type = CREATE_TOKEN THEN "create_db"
    ELSE IF cmd_type = REVOKE_TOKEN THEN "revoke_db"
    ELSE IF cmd_type = EXTEND_TOKEN THEN "extend_db"
    ELSE "respond"

UnknownCommand(cmd_type) == [error |-> "unknown_command", detail |-> cmd_type]

\* blpop("auth:commands", timeout=1), json.loads and the entry of
\* _process_command: None on an empty list, the except branch on bad JSON
blpop_command(i) ==
    /\ loops[i].pc = "blpop"
    /\ IF queue = <<>>
       THEN /\ loops' = SetLoop(i, [loops[i] EXCEPT !.pc = "top"])
            /\ UNCHANGED <<queue, hist>>
       ELSE LET item == BLPopItem(queue) IN
            /\ queue' = BLPopRest(queue)
            /\ IF ~IsJson(item.text)
               THEN /\ loops' = SetLoop(i, [loops[i] EXCEPT !.pc = "sleep"])
                    /\ hist' = Log([hist EXCEPT !.dequeued = @ \cup {item.seq},
                                                !.garbled = @ \cup {item.seq}],
                                   "blpop", item.seq)
               ELSE LET command == JsonLoads(item.text)
                        pc == Dispatch(command.type) IN
                    /\ loops' = SetLoop(i,
                          [pc |-> pc, seq |-> item.seq, cmd |-> command, loc |-> Nil,
                           result |-> IF pc = "respond"
                                      THEN UnknownCommand(command.type) ELSE Nil])
                    /\ hist' = LET h == Log([hist EXCEPT
                                                !.dequeued = @ \cup {item.seq},
                                                !.started = IF pc \in HandlerPcs
                                                            THEN @ \cup {item.seq}
                                                            ELSE @],
                                            "blpop", item.seq) IN
                               IF pc \in HandlerPcs THEN Log(h, "handler", item.seq)
                               ELSE h
    /\ UNCHANGED <<now, storeVars, slots, running, task, stopping, subs, vals,
                   warm, faults, pushed>>

\* faulty variant of loop_sleep: the exception ends the loop
loop_ended(i) ==
    /\ loops[i].pc = "sleep"
    /\ loops' = SetLoop(i, [IdleLoop EXCEPT !.pc = "done"])
    /\ UNCHANGED <<now, storeVars, queue, slots, running, task, stopping, subs,
                   vals, warm, faults, pushed, hist>>

\* asyncio.sleep(1) of the loop's except branch
loop_sleep(i) ==
    /\ loops[i].pc = "sleep"
    /\ loops' = SetLoop(i, [IdleLoop EXCEPT !.pc = "top"])
    /\ UNCHANGED <<now, storeVars, queue, slots, running, task, stopping, subs,
                   vals, warm, faults, pushed, hist>>

----------------------------------------------------------------------------
(* CommandProcessor: the three handlers, one step per awaited call *)

\* the handler of loop i returns `result`: _process_command goes on to setex
Returned(i, result) ==
    [loops[i] EXCEPT !.pc = "respond", !.result = result, !.loc = Nil]

TokenNotFound(token_id) == [error |-> "token_not_found", detail |-> token_id]

\* faulty variant of NextId: the draw does not depend on the rows created since
\* the start
NextIdStatic == Cardinality(DOMAIN StoredRows) + 1

\* the secret and the token_id of the next row (both drawn fresh)
NextId == Cardinality(DOMAIN tokens) + 1

\* _create_token: secret, hash, expires_at, then the INSERT transaction
create_db(i) ==
    /\ loops[i].pc = "create_db"
    /\ LET data == loops[i].cmd.data
           token == RawToken(NextId)
           token_hash == Sha256(token)
           expires_at == IF data.ttl_days # None
                         THEN <<now + data.ttl_days[1]>> ELSE None
           row == [token_hash |-> token_hash, name |-> data.name,
                   scopes |-> data.scopes,
                   created_at |-> now, expires_at |-> expires_at,
                   revoked |-> FALSE, revoked_at |-> None] IN
       /\ tokens' = Put(tokens, NextId, row)
       /\ loops' = SetLoop(i, [loops[i] EXCEPT !.pc = "create_hset",
              !.loc = [token |-> token, token_id |-> NextId, name |-> data.name,
                       scopes |-> data.scopes,
                       created_at |-> now, expires_at |-> expires_at]])
    /\ UNCHANGED <<now, cache, revoked_tokens, queue, slots, running, task, stopping,
                   subs, vals, warm, faults, pushed, hist>>

\* _create_token: hset of the cache entry (write-through)
create_hset(i) ==
    /\ loops[i].pc = "create_hset"
    /\ LET loc == loops[i].loc IN
       cache' = HSet(cache, Sha256(loc.token),
                     CacheFields(loc.token_id, loc.name, loc.scopes, loc.expires_at,
                                 FALSE))
    /\ loops' = SetLoop(i, [loops[i] EXCEPT !.pc = "create_expire"])
    /\ UNCHANGED <<now, tokens, revoked_tokens, queue, slots, running, task, stopping,
                   subs, vals, warm, faults, pushed, hist>>

\* the payload _create_token returns
CreateResult(loc) ==
    [token |-> loc.token, token_id |-> Str(loc.token_id), name |-> loc.name,
     scopes |-> loc.scopes,
     created_at |-> IsoFormat(loc.created_at),
     expires_at |-> IF loc.expires_at # None
                    THEN IsoFormat(loc.expires_at[1]) ELSE None]

\* _create_token: expire of the cache entry, then the return
create_expire(i) ==
    /\ loops[i].pc = "create_expire"
    /\ cache' = Expire(cache, Sha256(loops[i].loc.token))
    /\ loops' = SetLoop(i, Returned(i, CreateResult(loops[i].loc)))
    /\ hist' = Note("finished", loops[i].seq)
    /\ UNCHANGED <<now, tokens, revoked_tokens, queue, slots, running, task, stopping,
                   subs, vals, warm, faults, pushed>>

\* faulty variant of revoke_db: no test of the row returned by the UPDATE
revoke_db_unchecked(i) ==
    /\ loops[i].pc = "revoke_db"
    /\ LET token_id == loops[i].cmd.data.token_id IN
       IF token_id \in DOMAIN tokens
       THEN /\ tokens' = [tokens EXCEPT ![token_id].revoked = TRUE,
                                        ![token_id].revoked_at = <<now>>]
            /\ loops' = SetLoop(i, [loops[i] EXCEPT !.pc = "revoke_delete",
                   !.loc = [token_id |-> token_id,
                            token_hash |-> tokens[token_id].token_hash,
                            revoked_at |-> now]])
            /\ hist' = Log(hist, "update", loops[i].seq)
       ELSE /\ tokens' = tokens
            /\ loops' = SetLoop(i, Returned(i,
                   [success |-> TRUE, token_id |-> token_id,
                    revoked_at |-> IsoFormat(now)]))
            /\ hist' = Note("finished", loops[i].seq)
    /\ UNCHANGED <<now, cache, revoked_tokens, queue, slots, running, task, stopping,
                   subs, vals, warm, faults, pushed>>

\* _revoke_token: UPDATE tokens SET revoked = TRUE, revoked_at = NOW() ... RETURNING
revoke_db(i) ==
    /\ loops[i].pc = "revoke_db"
    /\ LET token_id == loops[i].cmd.data.token_id IN
       IF token_id \in DOMAIN tokens
       THEN /\ tokens' = [tokens EXCEPT ![token_id].revoked = TRUE,
                                        ![token_id].revoked_at = <<now>>]
            /\ loops' = SetLoop(i, [loops[i] EXCEPT !.pc = "revoke_delete",
                   !.loc = [token_id |-> token_id,
                            token_hash |-> tokens[token_id].token_hash,
                            revoked_at |-> now]])
            /\ hist' = Log(hist, "update", loops[i].seq)
       ELSE /\ tokens' = tokens
            /\ loops' = SetLoop(i, Returned(i, TokenNotFound(token_id)))
            /\ hist' = Note("finished", loops[i].seq)
    /\ UNCHANGED <<now, cache, revoked_tokens, queue, slots, running, task, stopping,
                   subs, vals, warm, faults, pushed>>

\* faulty variant of revoke_delete: the cache entry is left in place
revoke_delete_skipped(i) ==
    /\ loops[i].pc = "revoke_delete"
    /\ cache' = cache
    /\ loops' = SetLoop(i, [loops[i] EXCEPT !.pc = "revoke_sadd"])
    /\ UNCHANGED <<now, tokens, revoked_tokens, queue, slots, running, task, stopping,
                   subs, vals, warm, faults, pushed, hist>>

\* _revoke_token: delete of the cache entry
revoke_delete(i) ==
    /\ loops[i].pc = "revoke_delete"
    /\ cache' = Del(cache, loops[i].loc.token_hash)
    /\ loops' = SetLoop(i, [loops[i] EXCEPT !.pc = "revoke_sadd"])
    /\ hist' = Log(hist, "delete", loops[i].seq)
    /\ UNCHANGED <<now, tokens, revoked_tokens, queue, slots, running, task, stopping,
                   subs, vals, warm, faults, pushed>>

RevokeResult(loc) ==
    [success |-> TRUE, token_id |-> loc.token_id,
     revoked_at |-> IsoFormat(loc.revoked_at)]

\* faulty variant of revoke_sadd: the handler returns success without the sadd
revoke_sadd_skipped(i) ==
    /\ loops[i].pc = "revoke_sadd"
    /\ revoked_tokens' = revoked_tokens
    /\ loops' = SetLoop(i, Returned(i, RevokeResult(loops[i].loc)))
    /\ hist' = [hist EXCEPT !.finished = @ \cup {loops[i].seq},
                            !.revokeDone = @ \cup {loops[i].loc.token_hash}]
    /\ UNCHANGED <<now, tokens, cache, queue, slots, running, task, stopping,
                   subs, vals, warm, faults, pushed>>

\* _revoke_token: sadd to the Revocation Set, then the return
revoke_sadd(i) ==
    /\ loops[i].pc = "revoke_sadd"
    /\ revoked_tokens' = SAdd(revoked_tokens, loops[i].loc.token_hash)
    /\ loops' = SetLoop(i, Returned(i, RevokeResult(loops[i].loc)))
    /\ hist' = Log([hist EXCEPT !.finished = @ \cup {loops[i].seq},
                                !.revokeDone = @ \cup {loops[i].loc.token_hash}],
                   "sadd", loops[i].seq)
    /\ UNCHANGED <<now, tokens, cache, queue, slots, running, task, stopping,
                   subs, vals, warm, faults, pushed>>

\* faulty variant of ExtendedExpiry: the new expiry counts from NOW() alone
ExtendedFromNow(expires_at, extend_days) == <<now + extend_days>>

\* COALESCE(expires_at, NOW()) + INTERVAL '1 day' * $2
ExtendedExpiry(expires_at, extend_days) ==
    IF expires_at # None THEN <<expires_at[1] + extend_days>>
    ELSE <<now + extend_days>>

\* faulty variant of extend_db: the UPDATE matches only rows that are not
\* revoked
extend_db_active_only(i) ==
    /\ loops[i].pc = "extend_db"
    /\ LET token_id == loops[i].cmd.data.token_id
           extend_days == loops[i].cmd.data.extend_days IN
       IF token_id \in DOMAIN tokens /\ ~tokens[token_id].revoked
       THEN LET expires_at == ExtendedExpiry(tokens[token_id].expires_at, extend_days) IN
            /\ tokens' = [tokens EXCEPT ![token_id].expires_at = expires_at]
            /\ loops' = SetLoop(i, [loops[i] EXCEPT !.pc = "extend_delete",
                   !.loc = [token_id |-> token_id,
                            token_hash |-> tokens[token_id].token_hash,
                            expires_at |-> expires_at]])
            /\ hist' = Note("extended",
                            [seq |-> loops[i].seq, token_id |-> token_id,
                             before |-> tokens[token_id].expires_at,
                             at |-> now, days |-> extend_days,
                             after |-> expires_at])
       ELSE /\ tokens' = tokens
            /\ loops' = SetLoop(i, Returned(i, TokenNotFound(token_id)))
            /\ hist' = Note("finished", loops[i].seq)
    /\ UNCHANGED <<now, cache, revoked_tokens, queue, slots, running, task, stopping,
                   subs, vals, warm, faults, pushed>>

\* _extend_token: the UPDATE ... RETURNING token_hash, expires_at
extend_db(i) ==
    /\ loops[i].pc = "extend_db"
    /\ LET token_id == loops[i].cmd.data.token_id
           extend_days == loops[i].cmd.data.extend_days IN
       IF token_id \in DOMAIN tokens
       THEN LET expires_at == ExtendedExpiry(tokens[token_id].expires_at, extend_days) IN
            /\ tokens' = [tokens EXCEPT ![token_id].expires_at = expires_at]
            /\ loops' = SetLoop(i, [loops[i] EXCEPT !.pc = "extend_delete",
                   !.loc = [token_id |-> token_id,
                            token_hash |-> tokens[token_id].token_hash,
                            expires_at |-> expires_at]])
            /\ hist' = Note("extended",
                            [seq |-> loops[i].seq, token_id |-> token_id,
                             before |-> tokens[token_id].expires_at,
                             at |-> now, days |-> extend_days,
                             after |-> expires_at])
       ELSE /\ tokens' = tokens
            /\ loops' = SetLoop(i, Returned(i, TokenNotFound(token_id)))
            /\ hist' = Note("finished", loops[i].seq)
    /\ UNCHANGED <<now, cache, revoked_tokens, queue, slots, running, task, stopping,
                   subs, vals, warm, faults, pushed>>

ExtendResult(loc) ==
    [success |-> TRUE, token_id |-> loc.token_id,
     expires_at |-> IsoFormat(loc.expires_at[1])]

\* _extend_token: delete of the cache entry, then the return
extend_delete(i) ==
    /\ loops[i].pc = "extend_delete"
    /\ cache' = Del(cache, loops[i].loc.token_hash)
    /\ loops' = SetLoop(i, Returned(i, ExtendResult(loops[i].loc)))
    /\ hist' = Note("finished", loops[i].seq)
    /\ UNCHANGED <<now, tokens, revoked_tokens, queue, slots, running, task, stopping,
                   subs, vals, warm, faults, pushed>>

\* _process_command: setex(response_key, 30, json.dumps(result))
publish_result(i) ==
    /\ loops[i].pc = "respond"
    /\ slots' = SetEx(slots, loops[i].cmd.response_key, JsonDumps(loops[i].result))
    /\ loops' = SetLoop(i, [IdleLoop EXCEPT !.pc = "top"])
    /\ hist' = Log(Note("written", loops[i].seq), "setex", loops[i].seq)
    /\ UNCHANGED <<now, storeVars, queue, running, task, stopping, subs, vals, warm,
                   faults, pushed>>

CommandFailed == [error |-> "command_failed", detail |-> "str(e)"]

\* faulty variant of publish_error: the except branch logs and writes nothing
publish_error_logged(i) ==
    /\ loops[i].pc = "respond_err"
    /\ loops' = SetLoop(i, [IdleLoop EXCEPT !.pc = "top"])
    /\ UNCHANGED <<now, storeVars, queue, slots, running, task, stopping, subs, vals,
                   warm, faults, pushed, hist>>

\* _process_command, except branch: setex of {error: command_failed, detail}
publish_error(i) ==
    /\ loops[i].pc = "respond_err"
    /\ slots' = SetEx(slots, loops[i].cmd.response_key, JsonDumps(CommandFailed))
    /\ loops' = SetLoop(i, [IdleLoop EXCEPT !.pc = "top"])
    /\ hist' = Log(Note("written", loops[i].seq), "setex", loops[i].seq)
    /\ UNCHANGED <<now, storeVars, queue, running, task, stopping, subs, vals, warm,
                   faults, pushed>>

\* the handlers' Redis calls, which follow their durable write: hset and
\* expire of _create_token, delete and sadd of _revoke_token, delete of
\* _extend_token
CachePcs ==
    {"create_hset", "create_expire", "revoke_delete", "revoke_sadd", "extend_delete"}

\* where an exception raised by the call awaited at pc is caught:
\* in _process_command's try (the except branch publishes the error), or,
\* from blpop and from the except branch itself, in the loop (sleep, go on)
CaughtAt(pc) ==
    IF pc \in HandlerPcs \cup {"respond"} THEN "respond_err" ELSE "sleep"

\* the database or Redis call that loop i is awaiting raises
call_raises(i) ==
    /\ loops[i].pc \in InFlightPcs \cup {"blpop"}
    /\ faults < MaxFaults
    /\ faults' = faults + 1
    /\ LET pc == loops[i].pc IN
       /\ loops' = SetLoop(i,
             IF CaughtAt(pc) = "respond_err"
             THEN [loops[i] EXCEPT !.pc = "respond_err", !.loc = Nil, !.result = Nil]
             ELSE [IdleLoop EXCEPT !.pc = "sleep"])
       /\ hist' = [hist EXCEPT
             !.finished = IF pc \in HandlerPcs THEN @ \cup {loops[i].seq} ELSE @,
             !.raised = IF pc \in HandlerPcs THEN @ \cup {loops[i].seq} ELSE @,
             !.cacheRaised = IF pc \in CachePcs THEN @ \cup {loops[i].seq} ELSE @,
             !.writeFailed = IF pc = "respond_err" THEN @ \cup {loops[i].seq} ELSE @]
    /\ UNCHANGED <<now, storeVars, queue, slots, running, task, stopping, subs, vals,
                   warm, pushed>>

----------------------------------------------------------------------------
(* submit_command, other writers of the queue, the clock, the cache TTL *)

\* the token_id a revoke or extend request names
TargetIds == DOMAIN tokens \cup {NoSuchId}

\* the data of a command, as the endpoints build it
DataChoices(cmd_type) ==
    IF cmd_type = CREATE_TOKEN
    THEN {[name |-> "svc", scopes |-> sc, ttl_days |-> ttl] :
             sc \in ScopeChoices, ttl \in TtlChoices}
    ELSE IF cmd_type = REVOKE_TOKEN
    THEN {[token_id |-> id] : id \in TargetIds}
    ELSE {[token_id |-> id, extend_days |-> d] : id \in TargetIds, d \in ExtendChoices}

\* where the command with this seq is: queued, in flight, or neither
Queued(n) == \E k \in DOMAIN queue : queue[k].seq = n
InFlight(n) == \E i \in LoopIds : loops[i].pc \in InFlightPcs /\ loops[i].seq = n

\* the response key, the command and its rpush, for the call that is waiting
\* from then on
Submit(cmd_type, data) ==
    LET n == pushed + 1
        command == [type |-> cmd_type, data |-> data,
                    response_key |-> ResponseKey(n)] IN
    /\ queue' = RPush(queue, [seq |-> n, text |-> JsonDumps(command)])
    /\ subs' = Put(subs, n, [pc |-> "poll", polls |-> 0, waited |-> 0,
                             result |-> Nil, pending |-> FALSE])
    /\ pushed' = n

\* submit_command up to its first poll: the response key, the command, the rpush
submit_command ==
    /\ pushed < MaxCmds
    /\ warm.pc = "off"
    /\ \E cmd_type \in CommandType : \E data \in DataChoices(cmd_type) :
          Submit(cmd_type, data)
    /\ UNCHANGED <<now, storeVars, slots, procVars, vals, warm, faults, hist>>

\* one caller enqueues REVOKE_TOKEN and then EXTEND_TOKEN for the same token
submit_revoke ==
    /\ pushed = 0
    /\ warm.pc = "off"
    /\ Submit(REVOKE_TOKEN, [token_id |-> 1])
    /\ UNCHANGED <<now, storeVars, slots, procVars, vals, warm, faults, hist>>

submit_extend ==
    /\ pushed = 1
    /\ warm.pc = "off"
    /\ \E extend_days \in ExtendChoices :
          Submit(EXTEND_TOKEN, [token_id |-> 1, extend_days |-> extend_days])
    /\ UNCHANGED <<now, storeVars, slots, procVars, vals, warm, faults, hist>>

\* POST /auth/tokens of the scenario: CreateToken(scopes=[read], ttl_days=30)
create_token ==
    /\ pushed = 0
    /\ warm.pc = "off"
    /\ Submit(CREATE_TOKEN, [name |-> "svc", scopes |-> <<"read">>, ttl_days |-> <<30>>])
    /\ UNCHANGED <<now, storeVars, slots, procVars, vals, warm, faults, hist>>

\* the token CreateToken has returned to its caller, if it has
Created == 1 \in DOMAIN subs /\ subs[1].pc = "returned" /\ "token" \in DOMAIN subs[1].result

\* POST /auth/tokens/{token_id}/revoke of the scenario, with the token_id that
\* CreateToken returned, after the two validations
revoke_token ==
    /\ pushed = 1
    /\ warm.pc = "off"
    /\ Created
    /\ \E v \in ValIds : vals[v].pc = "done" /\ vals[v].required = <<"write">>
    /\ Submit(REVOKE_TOKEN, [token_id |-> subs[1].result.token_id.str])
    /\ UNCHANGED <<now, storeVars, slots, procVars, vals, warm, faults, hist>>

\* one round of the wait loop: get(response_key), return on a result, else sleep
poll(n) ==
    /\ subs[n].pc = "poll"
    /\ subs[n].polls < MaxWait
    /\ LET result == Get(slots, ResponseKey(n)) IN
       subs' = [subs EXCEPT ![n] =
                  IF result # None
                  THEN [@ EXCEPT !.pc = "returned", !.result = JsonLoads(result)]
                  ELSE [@ EXCEPT !.polls = @ + 1]]
    /\ UNCHANGED <<now, storeVars, queue, slots, procVars, vals, warm, faults,
                   pushed, hist>>

\* faulty variant of raise_timeout: the timeout is returned as an error map
timeout_returned(n) ==
    /\ subs[n].pc = "poll"
    /\ subs[n].polls = MaxWait
    /\ subs' = [subs EXCEPT ![n] = [@ EXCEPT !.pc = "returned",
                     !.result = [error |-> "timeout", detail |-> "str(e)"]]]
    /\ UNCHANGED <<now, storeVars, queue, slots, procVars, vals, warm, faults,
                   pushed, hist>>

\* faulty variant of raise_timeout: the timeout takes the command off the queue
timeout_cancels(n) ==
    /\ subs[n].pc = "poll"
    /\ subs[n].polls = MaxWait
    /\ subs' = [subs EXCEPT ![n] = [@ EXCEPT !.pc = "timeout",
                                    !.pending = Queued(n) \/ InFlight(n)]]
    /\ queue' = SelectSeq(queue, LAMBDA item : item.seq # n)
    /\ UNCHANGED <<now, storeVars, slots, procVars, vals, warm, faults, pushed, hist>>

\* after the last round: raise TimeoutError("Command processing timeout")
raise_timeout(n) ==
    /\ subs[n].pc = "poll"
    /\ subs[n].polls = MaxWait
    /\ subs' = [subs EXCEPT ![n] = [@ EXCEPT !.pc = "timeout",
                                    !.pending = Queued(n) \/ InFlight(n)]]
    /\ UNCHANGED <<now, storeVars, queue, slots, procVars, vals, warm, faults,
                   pushed, hist>>

\* the 30 seconds of a response key, counted in the 0.1 s of the wait loop's
\* sleep and scaled with max_wait: six times the 5 seconds of the wait loop
ResponseLifetime == 6 * MaxWait

\* the poll that is due: the rounds of the wait loop are one sleep apart
poll_due(n) ==
    /\ n \in DOMAIN subs
    /\ subs[n].polls <= subs[n].waited
    /\ poll(n)

\* asyncio.sleep(0.1) returns: one interval has passed for every waiting
\* call, each of which has made the poll that was due, and for every
\* response key
sleep_elapses ==
    /\ \A n \in DOMAIN subs : subs[n].pc = "poll" => subs[n].polls > subs[n].waited
    /\ \/ \E n \in DOMAIN subs : subs[n].pc = "poll"
       \/ \E k \in DOMAIN slots : slots[k].age < ResponseLifetime
    /\ subs' = [n \in DOMAIN subs |->
                  IF subs[n].pc = "poll"
                  THEN [subs[n] EXCEPT !.waited = @ + 1] ELSE subs[n]]
    /\ slots' = [k \in DOMAIN slots |->
                   [slots[k] EXCEPT !.age = IF @ < ResponseLifetime THEN @ + 1 ELSE @]]
    /\ UNCHANGED <<now, storeVars, queue, procVars, vals, warm, faults, pushed, hist>>

\* faulty variant of response_expires: the key is dropped at any age
response_expires_early(k) ==
    /\ k \in DOMAIN slots
    /\ slots' = Drop(slots, k)
    /\ UNCHANGED <<now, storeVars, queue, procVars, subs, vals, warm, faults,
                   pushed, hist>>

\* Redis drops a response key whose 30 seconds have run out
response_expires(k) ==
    /\ k \in DOMAIN slots
    /\ slots[k].age >= ResponseLifetime
    /\ slots' = Drop(slots, k)
    /\ UNCHANGED <<now, storeVars, queue, procVars, subs, vals, warm, faults,
                   pushed, hist>>

\* what another client of the Redis list auth:commands may push: text that is
\* not JSON, or a command whose type is none of CommandType
OtherItems(n) ==
    {NotJson,
     JsonDumps([type |-> "other", data |-> Nil, response_key |-> ResponseKey(n)])}

rpush_other ==
    /\ pushed < MaxCmds
    /\ \E text \in OtherItems(pushed + 1) :
          queue' = RPush(queue, [seq |-> pushed + 1, text |-> text])
    /\ pushed' = pushed + 1
    /\ UNCHANGED <<now, storeVars, slots, procVars, subs, vals, warm, faults, hist>>

\* time passes
tick ==
    /\ now < MaxTime
    /\ now' = now + 1
    /\ UNCHANGED <<storeVars, queue, slots, procVars, subs, vals, warm, faults,
                   pushed, hist>>

\* Redis drops the cache entry whose TTL (token_cache_ttl) has run out
cache_ttl_elapsed(h) ==
    /\ h \in DOMAIN cache
    /\ cache[h].ttl
    /\ cache' = Drop(cache, h)
    /\ UNCHANGED <<now, tokens, revoked_tokens, queue, slots, procVars, subs, vals,
                   warm, faults, pushed, hist>>

----------------------------------------------------------------------------
(* The validation path: validate_token and _validate_from_data *)

Invalid(error) == [valid |-> FALSE, error |-> error]
Valid(token_scopes, token_id, name) ==
    [valid |-> TRUE, scopes |-> token_scopes, token_id |-> token_id, name |-> name]

\* faulty variant of ValidateFromData: the expiry is tested before the revoked
\* flag
ValidateExpiryFirst(data, required_scopes) ==
    IF data.expires_at # EmptyStr /\ FromIsoFormat(data.expires_at) < now
    THEN Invalid("token_expired")
    ELSE IF data.revoked = "1" THEN Invalid("token_revoked")
    ELSE LET token_scopes == IF data.scopes # EmptyStr THEN Split(data.scopes) ELSE <<>>
             missing_scopes ==
                 SelectSeq(required_scopes, LAMBDA sc : sc \notin Range(token_scopes)) IN
         IF Len(required_scopes) > 0 /\ Len(missing_scopes) > 0
         THEN Invalid("insufficient_scopes")
         ELSE Valid(token_scopes, data.token_id, data.name)

\* faulty variant of ValidateFromData: the required scopes are not tested
ValidateIgnoringScopes(data, required_scopes) ==
    IF data.revoked = "1" THEN Invalid("token_revoked")
    ELSE IF data.expires_at # EmptyStr /\ FromIsoFormat(data.expires_at) < now
    THEN Invalid("token_expired")
    ELSE Valid(IF data.scopes # EmptyStr THEN Split(data.scopes) ELSE <<>>,
               data.token_id, data.name)

\* _validate_from_data: revoked, then expired, then missing scopes, then valid
ValidateFromData(data, required_scopes) ==
    IF data.revoked = "1" THEN Invalid("token_revoked")
    ELSE IF data.expires_at # EmptyStr /\ FromIsoFormat(data.expires_at) < now
    THEN Invalid("token_expired")
    ELSE LET token_scopes == IF data.scopes # EmptyStr THEN Split(data.scopes) ELSE <<>>
             missing_scopes ==
                 SelectSeq(required_scopes, LAMBDA sc : sc \notin Range(token_scopes)) IN
         IF Len(required_scopes) > 0 /\ Len(missing_scopes) > 0
         THEN Invalid("insufficient_scopes")
         ELSE Valid(token_scopes, data.token_id, data.name)

SetVal(v, rec) == [vals EXCEPT ![v] = rec]

\* the store holds a row with this hash that is not revoked and has expired
StoreExpired(h) ==
    \E id \in RowsByHash(h) :
        /\ ~tokens[id].revoked
        /\ tokens[id].expires_at # None
        /\ tokens[id].expires_at[1] < now

\* no command is being executed
Quiet == \A i \in LoopIds : loops[i].pc \notin InFlightPcs

\* validate_token has its verdict
Answer(v, verdict) ==
    [vals[v] EXCEPT !.pc = "done", !.verdict = verdict, !.data = Nil,
                    !.expired = @ /\ Quiet /\ StoreExpired(Sha256(vals[v].token))]

\* the bearer strings a caller presents: the issued secrets and a forged one
BearerChoices == {RawToken(id) : id \in DOMAIN tokens} \cup {ForgedToken}

\* a ValidateToken request arrives
validate_token(v) ==
    /\ vals[v].pc = "idle"
    /\ warm.pc = "off"
    /\ \E token \in BearerChoices : \E required_scopes \in RequiredChoices :
          vals' = SetVal(v, [IdleVal EXCEPT
                     !.pc = "sismember", !.token = token,
                     !.required = required_scopes,
                     !.afterRevoke = Sha256(token) \in hist.revokeDone,
                     !.expired = Quiet /\ StoreExpired(Sha256(token))])
    /\ UNCHANGED <<now, storeVars, queue, slots, procVars, subs, warm, faults,
                   pushed, hist>>

\* the call of v has read `source` and found something there or not; then it
\* is at `next`
HasRead(v, source, hit, next) ==
    [next EXCEPT !.reads = Append(vals[v].reads, [source |-> source, hit |-> hit])]

\* faulty variant of validate_sismember: the revoked branch does not return
validate_sismember_falls_through(v) ==
    /\ vals[v].pc = "sismember"
    /\ LET is_revoked == SIsMember(revoked_tokens, Sha256(vals[v].token)) IN
       vals' = SetVal(v, HasRead(v, "revoked_tokens", is_revoked,
                                 [vals[v] EXCEPT !.pc = "hgetall"]))
    /\ UNCHANGED <<now, storeVars, queue, slots, procVars, subs, warm, faults,
                   pushed, hist>>

\* faulty variant of validate_sismember: a revoked hit also deletes the entry
\* of the hash
validate_sismember_evicts(v) ==
    /\ vals[v].pc = "sismember"
    /\ LET is_revoked == SIsMember(revoked_tokens, Sha256(vals[v].token)) IN
       /\ vals' = SetVal(v, HasRead(v, "revoked_tokens", is_revoked,
             IF is_revoked
             THEN Answer(v, Invalid("token_revoked"))
             ELSE [vals[v] EXCEPT !.pc = "hgetall"]))
       /\ cache' = IF is_revoked THEN Del(cache, Sha256(vals[v].token)) ELSE cache
    /\ UNCHANGED <<now, tokens, revoked_tokens, queue, slots, procVars, subs, warm,
                   faults, pushed, hist>>

\* STEP 1: sismember("revoked_tokens", token_hash)
validate_sismember(v) ==
    /\ vals[v].pc = "sismember"
    /\ LET is_revoked == SIsMember(revoked_tokens, Sha256(vals[v].token)) IN
       vals' = SetVal(v, HasRead(v, "revoked_tokens", is_revoked,
          IF is_revoked
          THEN Answer(v, Invalid("token_revoked"))
          ELSE [vals[v] EXCEPT !.pc = "hgetall"]))
    /\ UNCHANGED <<now, storeVars, queue, slots, procVars, subs, warm, faults,
                   pushed, hist>>

\* STEP 2: hgetall(token:<hash>); a hit is judged from the cached fields
validate_hgetall(v) ==
    /\ vals[v].pc = "hgetall"
    /\ LET cached == HGetAll(cache, Sha256(vals[v].token)) IN
       vals' = SetVal(v, HasRead(v, "cache", cached # Nil,
          IF cached # Nil
          THEN Answer(v, ValidateFromData(cached, vals[v].required))
          ELSE [vals[v] EXCEPT !.pc = "fetchrow"]))
    /\ UNCHANGED <<now, storeVars, queue, slots, procVars, subs, warm, faults,
                   pushed, hist>>

\* STEP 3: the SELECT by token_hash; no row is token_not_found
\* faulty variant of validate_fetchrow: a hash without a row is remembered in
\* the cache as a revoked entry
validate_fetchrow_caches_miss(v) ==
    /\ vals[v].pc = "fetchrow"
    /\ LET ids == RowsByHash(Sha256(vals[v].token)) IN
       /\ vals' = SetVal(v, HasRead(v, "store", ids # {},
             IF ids = {}
             THEN Answer(v, Invalid("token_not_found"))
             ELSE LET id == CHOOSE x \in ids : TRUE IN
                  [vals[v] EXCEPT !.pc = "hset",
                     !.data = CacheFields(id, tokens[id].name, tokens[id].scopes,
                                          tokens[id].expires_at, tokens[id].revoked)]))
       /\ cache' = IF ids = {}
                   THEN HSet(cache, Sha256(vals[v].token),
                             CacheFields(0, EmptyStr, <<>>, None, TRUE))
                   ELSE cache
    /\ UNCHANGED <<now, tokens, revoked_tokens, queue, slots, procVars, subs, warm,
                   faults, pushed, hist>>

validate_fetchrow(v) ==
    /\ vals[v].pc = "fetchrow"
    /\ LET ids == RowsByHash(Sha256(vals[v].token)) IN
       vals' = SetVal(v, HasRead(v, "store", ids # {},
          IF ids = {}
          THEN Answer(v, Invalid("token_not_found"))
          ELSE LET id == CHOOSE x \in ids : TRUE IN
               [vals[v] EXCEPT !.pc = "hset",
                  !.data = CacheFields(id, tokens[id].name, tokens[id].scopes,
                                       tokens[id].expires_at, tokens[id].revoked)]))
    /\ UNCHANGED <<now, storeVars, queue, slots, procVars, subs, warm, faults,
                   pushed, hist>>

\* faulty variant of validate_hset: a row found revoked is also added to the
\* Revocation Set
validate_hset_marks_revoked(v) ==
    /\ vals[v].pc = "hset"
    /\ cache' = HSet(cache, Sha256(vals[v].token), vals[v].data)
    /\ revoked_tokens' = IF vals[v].data.revoked = "1"
                         THEN SAdd(revoked_tokens, Sha256(vals[v].token))
                         ELSE revoked_tokens
    /\ vals' = SetVal(v, [vals[v] EXCEPT !.pc = "expire"])
    /\ UNCHANGED <<now, tokens, queue, slots, procVars, subs, warm, faults, pushed,
                   hist>>

\* faulty variant of validate_hset: the cache is not repopulated
validate_hset_skipped(v) ==
    /\ vals[v].pc = "hset"
    /\ cache' = cache
    /\ vals' = SetVal(v, [vals[v] EXCEPT !.pc = "expire"])
    /\ UNCHANGED <<now, tokens, revoked_tokens, queue, slots, procVars, subs, warm,
                   faults, pushed, hist>>

\* STEP 4: hset of the cache entry from the row that was read
validate_hset(v) ==
    /\ vals[v].pc = "hset"
    /\ cache' = HSet(cache, Sha256(vals[v].token), vals[v].data)
    /\ vals' = SetVal(v, [vals[v] EXCEPT !.pc = "expire"])
    /\ UNCHANGED <<now, tokens, revoked_tokens, queue, slots, procVars, subs, warm,
                   faults, pushed, hist>>

\* STEP 4: expire of the cache entry, then the verdict on the row that was read
validate_expire(v) ==
    /\ vals[v].pc = "expire"
    /\ cache' = Expire(cache, Sha256(vals[v].token))
    /\ vals' = SetVal(v, Answer(v, ValidateFromData(vals[v].data, vals[v].required)))
    /\ UNCHANGED <<now, tokens, revoked_tokens, queue, slots, procVars, subs, warm,
                   faults, pushed, hist>>

\* the response has been sent: the next request may arrive
validate_done(v) ==
    /\ vals[v].pc = "done"
    /\ vals' = SetVal(v, IdleVal)
    /\ UNCHANGED <<now, storeVars, queue, slots, procVars, subs, warm, faults,
                   pushed, hist>>

\* a ValidateToken request of the scenario arrives
Request(v, token, required_scopes) ==
    /\ warm.pc = "off"
    /\ vals' = SetVal(v, [IdleVal EXCEPT
                 !.pc = "sismember", !.token = token, !.required = required_scopes,
                 !.afterRevoke = Sha256(token) \in hist.revokeDone,
                 !.expired = Quiet /\ StoreExpired(Sha256(token)),
                 !.prev = [verdict |-> vals[v].verdict, reads |-> vals[v].reads]])
    /\ UNCHANGED <<now, storeVars, queue, slots, procVars, subs, warm, faults,
                   pushed, hist>>

\* ValidateToken(token, [read]) once CreateToken has returned the token
validate_read(v) ==
    /\ Created
    /\ vals[v].pc = "idle"
    /\ Request(v, subs[1].result.token, <<"read">>)

\* then ValidateToken(token, [write])
validate_write(v) ==
    /\ Created
    /\ vals[v].pc = "done" /\ vals[v].required = <<"read">>
    /\ Request(v, subs[1].result.token, <<"write">>)

\* and, once RevokeToken has returned, ValidateToken(token, [])
validate_revoked(v) ==
    /\ Created
    /\ vals[v].pc = "done" /\ vals[v].required = <<"write">>
    /\ 2 \in DOMAIN subs /\ subs[2].pc = "returned"
    /\ Request(v, subs[1].result.token, <<>>)

\* an awaited Redis or PostgreSQL call of validate_token raises: nothing in
\* validate_token catches it, the request ends with the exception
validate_raises(v) ==
    /\ vals[v].pc \in {"sismember", "hgetall", "fetchrow", "hset", "expire"}
    /\ faults < MaxFaults
    /\ faults' = faults + 1
    /\ vals' = SetVal(v, [vals[v] EXCEPT !.pc = "raised", !.data = Nil])
    /\ UNCHANGED <<now, storeVars, queue, slots, procVars, subs, warm, pushed, hist>>

\* the caller repeats its request at once: the same token, the same required
\* scopes
validate_again(v) ==
    /\ vals[v].pc = "done"
    /\ vals[v].prev = Nil
    /\ vals' = SetVal(v, [IdleVal EXCEPT
                 !.pc = "sismember", !.token = vals[v].token,
                 !.required = vals[v].required,
                 !.afterRevoke = Sha256(vals[v].token) \in hist.revokeDone,
                 !.expired = Quiet /\ StoreExpired(Sha256(vals[v].token)),
                 !.prev = [verdict |-> vals[v].verdict, reads |-> vals[v].reads]])
    /\ UNCHANGED <<now, storeVars, queue, slots, procVars, subs, warm, faults,
                   pushed, hist>>

----------------------------------------------------------------------------
(* Cache warm of the lifespan: _warm_cache *)

\* faulty variant of ActiveRows: no filter on t.revoked
ActiveRowsWithRevoked ==
    {[token_hash |-> tokens[id].token_hash, token_id |-> id, name |-> tokens[id].name,
      scopes |-> tokens[id].scopes, expires_at |-> tokens[id].expires_at] :
        id \in {x \in DOMAIN tokens :
                  tokens[x].expires_at = None \/ tokens[x].expires_at[1] > now}}

\* SELECT ... WHERE t.revoked = FALSE AND (t.expires_at IS NULL OR t.expires_at > NOW())
ActiveRows ==
    {[token_hash |-> tokens[id].token_hash, token_id |-> id, name |-> tokens[id].name,
      scopes |-> tokens[id].scopes, expires_at |-> tokens[id].expires_at] :
        id \in {x \in DOMAIN tokens :
                  /\ ~tokens[x].revoked
                  /\ (tokens[x].expires_at = None \/ tokens[x].expires_at[1] > now)}}

\* `for token in tokens`: the next row, or the end of the warm
WarmNext(rows) ==
    IF rows = {} THEN {IdleWarm}
    ELSE {[pc |-> "hset", rows |-> rows, cur |-> r] : r \in rows}

\* the lifespan calls _warm_cache after start() and before requests are
\* served: conn.fetch of the active tokens
warm_fetch ==
    /\ warm.pc = "off"
    /\ running
    /\ \A v \in ValIds : vals[v].pc = "idle"
    /\ warm' \in WarmNext(ActiveRows)
    /\ UNCHANGED <<now, storeVars, queue, slots, procVars, subs, vals, faults,
                   pushed, hist>>

\* hset of one token's entry, revoked = "0"
warm_hset ==
    /\ warm.pc = "hset"
    /\ cache' = HSet(cache, warm.cur.token_hash,
                     CacheFields(warm.cur.token_id, warm.cur.name, warm.cur.scopes,
                                 warm.cur.expires_at, FALSE))
    /\ warm' = [warm EXCEPT !.pc = "expire"]
    /\ UNCHANGED <<now, tokens, revoked_tokens, queue, slots, procVars, subs, vals,
                   faults, pushed, hist>>

\* expire of that entry, then the next token
warm_expire ==
    /\ warm.pc = "expire"
    /\ cache' = Expire(cache, warm.cur.token_hash)
    /\ warm' \in WarmNext(warm.rows \ {warm.cur})
    /\ UNCHANGED <<now, tokens, revoked_tokens, queue, slots, procVars, subs, vals,
                   faults, pushed, hist>>

----------------------------------------------------------------------------
(* POST /auth/tokens: the token-creation endpoint *)

\* a JSON value of a request body: its type and its value
J(t, v) == [t |-> t, v |-> v]

\* request bodies: the ones the commands are built from, one without
\* ttl_days, one without name, one whose scopes is a string and one whose
\* ttl_days is a string
CreateBodies ==
    {[name |-> J("str", d.name), scopes |-> J("list", d.scopes),
      ttl_days |-> IF d.ttl_days = None THEN J("null", Nil) ELSE J("int", d.ttl_days[1])] :
        d \in DataChoices(CREATE_TOKEN)}
    \cup {[name |-> J("str", "svc"), scopes |-> J("list", <<"read">>)],
          [scopes |-> J("list", <<"read">>)],
          [name |-> J("str", "svc"), scopes |-> J("str", "read")],
          [name |-> J("str", "svc"), scopes |-> J("list", <<"read">>),
           ttl_days |-> J("str", "soon")]}

\* CreateTokenRequest: name and scopes are required, ttl_days is int or null
IsCreateTokenRequest(body) ==
    /\ "name" \in DOMAIN body /\ body.name.t = "str"
    /\ "scopes" \in DOMAIN body /\ body.scopes.t = "list"
    /\ "ttl_days" \in DOMAIN body => body.ttl_days.t \in {"int", "null"}

\* the data of the command built from the request
CreateTokenData(body) ==
    [name |-> body.name.v, scopes |-> body.scopes.v,
     ttl_days |-> IF "ttl_days" \in DOMAIN body /\ body.ttl_days.t = "int"
                  THEN <<body.ttl_days.v>> ELSE None]

\* faulty variant of CreateTokenReply: TimeoutError is reported like an error
\* result
CreateTokenReplyTimeoutAsError(outcome, result) ==
    IF outcome = "rejected"
    THEN [status |-> 422, detail |-> "validation errors"]
    ELSE IF outcome = "timeout"
    THEN [status |-> 400, detail |-> "Command processing timeout"]
    ELSE IF "error" \in DOMAIN result
    THEN [status |-> 400,
          detail |-> IF "detail" \in DOMAIN result THEN result.detail ELSE result.error]
    ELSE [status |-> 201, body |-> result]

\* the response of the endpoint: 422 of the request validation, 504 on
\* TimeoutError, 400 with the detail of an error result, else 201 with the token
CreateTokenReply(outcome, result) ==
    IF outcome = "rejected"
    THEN [status |-> 422, detail |-> "validation errors"]
    ELSE IF outcome = "timeout"
    THEN [status |-> 504, detail |-> "Command processing timeout"]
    ELSE IF "error" \in DOMAIN result
    THEN [status |-> 400,
          detail |-> IF "detail" \in DOMAIN result THEN result.detail ELSE result.error]
    ELSE [status |-> 201, body |-> result]

\* a request that has its response
Replied(outcome, result) ==
    [pc |-> "replied", polls |-> 0, waited |-> 0, result |-> result,
     pending |-> FALSE,
     outcome |-> outcome, response |-> CreateTokenReply(outcome, result)]

\* a request arrives, the ones before it having been answered: a body that is
\* no CreateTokenRequest is answered by the request validation (kept as call
\* 0), else the command is submitted
post_tokens ==
    /\ warm.pc = "off"
    /\ \A n \in DOMAIN subs : subs[n].pc = "replied"
    /\ \E body \in CreateBodies :
          IF IsCreateTokenRequest(body)
          THEN /\ pushed < MaxCmds
               /\ Submit(CREATE_TOKEN, CreateTokenData(body))
          ELSE /\ 0 \notin DOMAIN subs
               /\ subs' = Put(subs, 0, Replied("rejected", Nil))
               /\ UNCHANGED <<queue, pushed>>
    /\ UNCHANGED <<now, storeVars, slots, procVars, vals, warm, faults, hist>>

\* submit_command has returned or raised TimeoutError: the endpoint responds
post_tokens_reply(n) ==
    /\ subs[n].pc \in {"returned", "timeout"}
    /\ subs' = [subs EXCEPT ![n] = Replied(subs[n].pc, subs[n].result)]
    /\ UNCHANGED <<now, storeVars, queue, slots, procVars, vals, warm, faults,
                   pushed, hist>>

----------------------------------------------------------------------------
(* AuthClient of the microservices: validate_token and require_scopes *)

\* what the POST to /auth/validate can give: a 200 with a ValidateTokenResponse
\* (valid, or invalid with one of the four errors, another error or none),
\* another status, or an exception of the HTTP client
AuthAnswers ==
    {[exc |-> "", status |-> 200, json |-> j] :
        j \in {Valid(sc, Str(1), "svc") : sc \in {<<>>, <<"read">>, <<"read", "write">>}}
              \cup {Invalid(err) : err \in {"token_expired", "token_revoked",
                                            "insufficient_scopes", "token_not_found",
                                            "rate_limited"}}
              \cup {[valid |-> FALSE]}}
    \cup {[exc |-> "", status |-> st, json |-> Nil] : st \in {422, 500}}
    \cup {[exc |-> x, status |-> 0, json |-> Nil] :
             x \in {"TimeoutException", "RequestError"}}

\* TokenInfo(**data): the fields that are absent take their defaults
TokenInfo(data) ==
    LET defaults == [valid |-> FALSE, scopes |-> <<>>, token_id |-> None,
                     name |-> None, error |-> None, detail |-> None] IN
    [f \in DOMAIN defaults |-> IF f \in DOMAIN data THEN data[f] ELSE defaults[f]]

\* AuthClient.validate_token: the TokenInfo of a 200, else HTTPException with
\* the status of the answer, 504 on a timeout, 503 on a connection error
ClientValidate(answer) ==
    IF answer.exc = "TimeoutException" THEN [raised |-> 504]
    ELSE IF answer.exc = "RequestError" THEN [raised |-> 503]
    ELSE IF answer.status = 200 THEN [token_info |-> TokenInfo(answer.json)]
    ELSE [raised |-> answer.status]

\* faulty variant of Dependency: no else branch for the other errors
DependencyKnownErrors(answer) ==
    LET got == ClientValidate(answer) IN
    IF "raised" \in DOMAIN got THEN got
    ELSE LET token_info == got.token_info IN
         IF ~token_info.valid
         THEN IF token_info.error = "token_expired" THEN [raised |-> 401]
              ELSE IF token_info.error = "token_revoked" THEN [raised |-> 401]
              ELSE IF token_info.error = "insufficient_scopes" THEN [raised |-> 403]
              ELSE IF token_info.error = "token_not_found" THEN [raised |-> 401]
              ELSE got
         ELSE got

\* the dependency built by require_scopes: what validate_token raises, else
\* 401 or 403 for a TokenInfo that is not valid, else the TokenInfo
Dependency(answer) ==
    LET got == ClientValidate(answer) IN
    IF "raised" \in DOMAIN got THEN got
    ELSE LET token_info == got.token_info IN
         IF ~token_info.valid
         THEN IF token_info.error = "token_expired" THEN [raised |-> 401]
              ELSE IF token_info.error = "token_revoked" THEN [raised |-> 401]
              ELSE IF token_info.error = "insufficient_scopes" THEN [raised |-> 403]
              ELSE IF token_info.error = "token_not_found" THEN [raised |-> 401]
              ELSE [raised |-> 401]
         ELSE got

\* a request to a protected endpoint: the dependency runs on the answer of the
\* auth service
dependency(v) ==
    /\ vals[v].pc = "dependency"
    /\ vals' = SetVal(v, [vals[v] EXCEPT !.pc = "done",
                                         !.verdict = Dependency(vals[v].data)])
    /\ UNCHANGED <<now, storeVars, queue, slots, procVars, subs, warm, faults,
                   pushed, hist>>

----------------------------------------------------------------------------
(* create_app of the stateless services: the endpoint of an action *)

\* PathParams of the tests: action is Literal["start", "stop"]
IsPathParams(path_params) ==
    "action" \in DOMAIN path_params /\ path_params.action \in {"start", "stop"}

\* RequestPayload of the tests: value is required and an int
IsRequestPayload(body) ==
    "value" \in DOMAIN body /\ body.value.t = "int"

\* faulty variant of Endpoint: no exception handler for the ValidationError of
\* the path parameters
EndpointUnhandled(action, request) ==
    IF action.request_model /\ ~IsRequestPayload(request.body)
    THEN [status |-> 422, error |-> "", called |-> FALSE, args |-> <<>>]
    ELSE IF action.path_params_model /\ ~IsPathParams(request.path_params)
    THEN [status |-> 500, error |-> "", called |-> FALSE, args |-> <<>>]
    ELSE [status |-> 200, error |-> "", called |-> TRUE,
          args |-> (IF action.request_model
                    THEN <<[value |-> request.body.value.v]>> ELSE <<>>)
                   \o (IF action.path_params_model
                       THEN <<request.path_params>> ELSE <<>>)]

\* the endpoint make_endpoint builds for an action without required scopes:
\* the payload parameter is validated before the function runs (422), then
\* PathParamsModel(**request.path_params), whose ValidationError is answered
\* by validation_exception_handler (400), then the handler is called
Endpoint(action, request) ==
    IF action.request_model /\ ~IsRequestPayload(request.body)
    THEN [status |-> 422, error |-> "", called |-> FALSE, args |-> <<>>]
    ELSE IF action.path_params_model /\ ~IsPathParams(request.path_params)
    THEN [status |-> 400, error |-> "Validation error", called |-> FALSE,
          args |-> <<>>]
    ELSE [status |-> 200, error |-> "", called |-> TRUE,
          args |-> (IF action.request_model
                    THEN <<[value |-> request.body.value.v]>> ELSE <<>>)
                   \o (IF action.path_params_model
                       THEN <<request.path_params>> ELSE <<>>)]

\* a request to the route of an action gets its response
endpoint(v) ==
    /\ vals[v].pc = "endpoint"
    /\ vals' = SetVal(v, [vals[v] EXCEPT !.pc = "done",
             !.verdict = Endpoint(vals[v].data.action, vals[v].data.request)])
    /\ UNCHANGED <<now, storeVars, queue, slots, procVars, subs, warm, faults,
                   pushed, hist>>

----------------------------------------------------------------------------
(* The specification *)

\* the processor's life cycle
Lifecycle ==
    \/ start
    \/ stop
    \/ stop_return

\* the loop and the handlers of the single writer
Processor ==
    \/ \E i \in LoopIds : loop_check(i)
    \/ \E i \in LoopIds : blpop_command(i)
    \/ \E i \in LoopIds : create_db(i)
    \/ \E i \in LoopIds : create_hset(i)
    \/ \E i \in LoopIds : create_expire(i)
    \/ \E i \in LoopIds : revoke_db(i)
    \/ \E i \in LoopIds : revoke_delete(i)
    \/ \E i \in LoopIds : revoke_sadd(i)
    \/ \E i \in LoopIds : extend_db(i)
    \/ \E i \in LoopIds : extend_delete(i)
    \/ \E i \in LoopIds : publish_result(i)

\* the exceptions of the processor and what follows them
Failures ==
    \/ \E i \in LoopIds : call_raises(i)
    \/ \E i \in LoopIds : publish_error(i)
    \/ \E i \in LoopIds : loop_sleep(i)

\* the submitters' wait loop
Waiting ==
    \/ \E n \in DOMAIN subs : poll(n)
    \/ \E n \in DOMAIN subs : raise_timeout(n)

\* the read path, the cache warm, the clock and the cache TTL
Reading ==
    \/ \E v \in ValIds : validate_token(v)
    \/ \E v \in ValIds : validate_sismember(v)
    \/ \E v \in ValIds : validate_hgetall(v)
    \/ \E v \in ValIds : validate_fetchrow(v)
    \/ \E v \in ValIds : validate_hset(v)
    \/ \E v \in ValIds : validate_expire(v)
    \/ \E v \in ValIds : validate_done(v)
    \/ warm_fetch
    \/ warm_hset
    \/ warm_expire
    \/ tick
    \/ \E h \in DOMAIN cache : cache_ttl_elapsed(h)

\* The command pipeline: life cycle, queue, processor with its failures.
\* Neither the read path nor the submitters' wait loop changes anything the
\* pipeline reads.
Next == Lifecycle \/ Processor \/ Failures \/ submit_command \/ rpush_other

Spec == Init /\ [][Next]_vars

\* The stores under concurrent reading: a started processor executing the
\* submitted commands, validations, cache warm, time. The wait loop of the
\* submitters changes nothing but subs, which nothing here reads.
NextStore ==
    \/ start
    \/ Processor
    \/ (pushed < MaxCalls /\ submit_command)
    \/ Reading

StoreSpec == Init /\ [][NextStore]_vars

\* The rendezvous: submitters waiting for a started processor that may fail.
NextWait ==
    \/ start
    \/ Processor
    \/ Failures
    \/ (pushed < MaxCalls /\ submit_command)
    \/ Waiting

WaitSpec == Init /\ [][NextWait]_vars

\* a step of the loop task: the event loop runs a task that can run, and the
\* awaited calls return
LoopStep == Processor \/ (\E i \in LoopIds : publish_error(i)) \/ (\E i \in LoopIds : loop_sleep(i))

FairSpec == Spec /\ WF_vars(LoopStep)

FairWaitSpec == WaitSpec /\ WF_vars(LoopStep)

\* the event loop also resumes a stop() whose awaited task has ended
StopSpec == FairSpec /\ WF_vars(stop_return)

\* The rendezvous in time: the polls one sleep apart, the response keys
\* with their lifetime, a processor whose calls do not fail.
NextSlot ==
    \/ start
    \/ Processor
    \/ (pushed < MaxCalls /\ submit_command)
    \/ \E n \in DOMAIN subs : poll_due(n)
    \/ \E n \in DOMAIN subs : raise_timeout(n)
    \/ sleep_elapses
    \/ \E k \in DOMAIN slots : response_expires(k)

SlotSpec == Init /\ [][NextSlot]_vars

\* The handlers over time: a started processor executing the submitted commands
\* while the clock advances, over a store that also holds a token with an
\* expiry.
ExpiringRows ==
    (2 :> [token_hash |-> Sha256(RawToken(2)), name |-> "job", scopes |-> <<"read">>,
           created_at |-> 0, expires_at |-> <<0>>,
           revoked |-> FALSE, revoked_at |-> None])

InitHandlers ==
    /\ tokens = StoredRows @@ ExpiringRows
    /\ now = 0
    /\ cache = <<>> /\ revoked_tokens = {}
    /\ queue = <<>> /\ slots = <<>>
    /\ running = FALSE /\ task = 0 /\ stopping = FALSE
    /\ loops = [i \in LoopIds |-> IdleLoop]
    /\ subs = <<>>
    /\ vals = [v \in ValIds |-> IdleVal]
    /\ warm = IdleWarm
    /\ faults = 0 /\ pushed = 0
    /\ hist = NoHistory

NextHandlers ==
    \/ start
    \/ Processor
    \/ submit_command
    \/ tick

HandlerSpec == InitHandlers /\ [][NextHandlers]_vars

\* _validate_from_data on its own: the projections it may be given, as the
\* three writers of the cache build them, the required scopes and the time
ProjectionChoices ==
    {CacheFields(1, "svc", sc, ex, rv) :
        sc \in {<<>>, <<"read">>, <<"read", "write">>},
        ex \in {None} \cup {<<t>> : t \in 0..MaxTime},
        rv \in BOOLEAN}

RequiredScopeChoices == {<<>>, <<"read">>, <<"write">>, <<"read", "write">>}

InitVerdict ==
    /\ now \in 0..MaxTime
    /\ \E data \in ProjectionChoices : \E required \in RequiredScopeChoices :
          vals = [v \in ValIds |->
                    [IdleVal EXCEPT !.pc = "data", !.data = data, !.required = required]]
    /\ tokens = StoredRows
    /\ cache = <<>> /\ revoked_tokens = {}
    /\ queue = <<>> /\ slots = <<>>
    /\ running = FALSE /\ task = 0 /\ stopping = FALSE
    /\ loops = [i \in LoopIds |-> IdleLoop]
    /\ subs = <<>>
    /\ warm = IdleWarm
    /\ faults = 0 /\ pushed = 0
    /\ hist = NoHistory

\* _validate_from_data(data, required_scopes) returns its response
validate_from_data(v) ==
    /\ vals[v].pc = "data"
    /\ vals' = SetVal(v, [vals[v] EXCEPT !.pc = "verdict",
             !.verdict = ValidateFromData(vals[v].data, vals[v].required)])
    /\ UNCHANGED <<now, storeVars, queue, slots, procVars, subs, warm, faults,
                   pushed, hist>>

NextVerdict == \E v \in ValIds : validate_from_data(v)

VerdictSpec == InitVerdict /\ [][NextVerdict]_vars

\* Two ValidateToken calls in a row, with no command, no cache warm and no
\* passing of time in between, over a store whose second token has any expiry
\* and a cache whose entries have expired
InitRepeat ==
    /\ now \in 0..MaxTime
    /\ \E ex \in {None} \cup {<<t>> : t \in 0..MaxTime} :
          tokens = StoredRows @@ [ExpiringRows EXCEPT ![2].expires_at = ex]
    /\ cache = <<>> /\ revoked_tokens = {}
    /\ queue = <<>> /\ slots = <<>>
    /\ running = FALSE /\ task = 0 /\ stopping = FALSE
    /\ loops = [i \in LoopIds |-> IdleLoop]
    /\ subs = <<>>
    /\ vals = [v \in ValIds |-> IdleVal]
    /\ warm = IdleWarm
    /\ faults = 0 /\ pushed = 0
    /\ hist = NoHistory

NextRepeat ==
    \/ \E v \in ValIds : validate_token(v)
    \/ \E v \in ValIds : validate_sismember(v)
    \/ \E v \in ValIds : validate_hgetall(v)
    \/ \E v \in ValIds : validate_fetchrow(v)
    \/ \E v \in ValIds : validate_hset(v)
    \/ \E v \in ValIds : validate_expire(v)
    \/ \E v \in ValIds : validate_again(v)

RepeatSpec == InitRepeat /\ [][NextRepeat]_vars

\* The stores under concurrent reading, with store calls of the read path
\* that may fail
NextFailingRead ==
    \/ NextStore
    \/ \E v \in ValIds : validate_raises(v)

FailingReadSpec == Init /\ [][NextFailingRead]_vars

\* The end-to-end scenario: one client creating a token, validating it twice,
\* revoking it and validating it again, against the running service, while
\* the clock advances and cache entries expire
NextScenario ==
    \/ start
    \/ \E i \in LoopIds : loop_check(i)
    \/ \E i \in LoopIds : blpop_command(i)
    \/ \E i \in LoopIds : create_db(i)
    \/ \E i \in LoopIds : create_hset(i)
    \/ \E i \in LoopIds : create_expire(i)
    \/ \E i \in LoopIds : revoke_db(i)
    \/ \E i \in LoopIds : revoke_delete(i)
    \/ \E i \in LoopIds : revoke_sadd(i)
    \/ \E i \in LoopIds : publish_result(i)
    \/ Waiting
    \/ create_token
    \/ revoke_token
    \/ \E v \in ValIds : validate_read(v)
    \/ \E v \in ValIds : validate_write(v)
    \/ \E v \in ValIds : validate_revoked(v)
    \/ \E v \in ValIds : validate_sismember(v)
    \/ \E v \in ValIds : validate_hgetall(v)
    \/ \E v \in ValIds : validate_fetchrow(v)
    \/ \E v \in ValIds : validate_hset(v)
    \/ \E v \in ValIds : validate_expire(v)
    \/ warm_fetch
    \/ warm_hset
    \/ warm_expire
    \/ tick
    \/ \E h \in DOMAIN cache : cache_ttl_elapsed(h)

ScenarioSpec == Init /\ [][NextScenario]_vars

\* REVOKE_TOKEN then EXTEND_TOKEN for the same token, enqueued by one caller
\* before or after the processor is started, under concurrent reading
NextRevokeExtend ==
    \/ start
    \/ submit_revoke
    \/ submit_extend
    \/ \E i \in LoopIds : loop_check(i)
    \/ \E i \in LoopIds : blpop_command(i)
    \/ \E i \in LoopIds : revoke_db(i)
    \/ \E i \in LoopIds : revoke_delete(i)
    \/ \E i \in LoopIds : revoke_sadd(i)
    \/ \E i \in LoopIds : extend_db(i)
    \/ \E i \in LoopIds : extend_delete(i)
    \/ \E i \in LoopIds : publish_result(i)
    \/ Reading

RevokeExtendSpec == Init /\ [][NextRevokeExtend]_vars

\* The cache warm alone: the processor has been started and no command is
\* submitted, over a Durable Store whose two tokens are revoked or not, with
\* no expiry or one before, at or after the current time, and an empty cache
InitWarm ==
    /\ now \in 0..MaxTime
    /\ \E r1, r2 \in BOOLEAN :
       \E e1, e2 \in {None} \cup {<<t>> : t \in 0..(MaxTime + 1)} :
          /\ tokens = [StoredRows EXCEPT ![1].revoked = r1, ![1].expires_at = e1]
                      @@ [ExpiringRows EXCEPT ![2].revoked = r2, ![2].expires_at = e2]
          /\ revoked_tokens = {Sha256(RawToken(1)) : x \in {r1} \ {FALSE}}
                              \cup {Sha256(RawToken(2)) : x \in {r2} \ {FALSE}}
    /\ cache = <<>>
    /\ queue = <<>> /\ slots = <<>>
    /\ running = FALSE /\ task = 0 /\ stopping = FALSE
    /\ loops = [i \in LoopIds |-> IdleLoop]
    /\ subs = <<>>
    /\ vals = [v \in ValIds |-> IdleVal]
    /\ warm = IdleWarm
    /\ faults = 0 /\ pushed = 0
    /\ hist = NoHistory

NextWarm ==
    \/ start
    \/ \E i \in LoopIds : loop_check(i)
    \/ warm_fetch
    \/ warm_hset
    \/ warm_expire

WarmSpec == InitWarm /\ [][NextWarm]_vars

\* The cache warm racing the handlers, then reads at rest: the commands are
\* submitted and the clock advances only between ValidateToken calls, and a
\* call starts only when the queue is empty and no handler is executing, so
\* that no call overlaps a command
NextWarmed ==
    \/ start
    \/ Processor
    \/ ( /\ pushed < MaxCalls
         /\ \A v \in ValIds : vals[v].pc = "idle"
         /\ submit_command )
    \/ warm_fetch
    \/ warm_hset
    \/ warm_expire
    \/ ((\A v \in ValIds : vals[v].pc = "idle") /\ tick)
    \/ \E v \in ValIds : (Quiet /\ queue = <<>> /\ validate_token(v))
    \/ \E v \in ValIds : validate_sismember(v)
    \/ \E v \in ValIds : validate_hgetall(v)
    \/ \E v \in ValIds : validate_fetchrow(v)
    \/ \E v \in ValIds : validate_hset(v)
    \/ \E v \in ValIds : validate_expire(v)
    \/ \E v \in ValIds : validate_done(v)

WarmedSpec == Init /\ [][NextWarmed]_vars

\* The token-creation endpoint over a started processor that may fail
NextEndpoint ==
    \/ start
    \/ \E i \in LoopIds : loop_check(i)
    \/ \E i \in LoopIds : blpop_command(i)
    \/ \E i \in LoopIds : create_db(i)
    \/ \E i \in LoopIds : create_hset(i)
    \/ \E i \in LoopIds : create_expire(i)
    \/ \E i \in LoopIds : publish_result(i)
    \/ Failures
    \/ post_tokens
    \/ Waiting
    \/ \E n \in DOMAIN subs : post_tokens_reply(n)

EndpointSpec == Init /\ [][NextEndpoint]_vars

\* The dependency of a protected endpoint on its own: any bearer token, any
\* required scopes, any answer of the auth service
InitDependency ==
    /\ now = 0
    /\ tokens = StoredRows
    /\ cache = <<>> /\ revoked_tokens = {}
    /\ queue = <<>> /\ slots = <<>>
    /\ running = FALSE /\ task = 0 /\ stopping = FALSE
    /\ loops = [i \in LoopIds |-> IdleLoop]
    /\ subs = <<>>
    /\ vals \in [ValIds -> {[IdleVal EXCEPT !.pc = "dependency", !.token = token,
                                            !.required = required_scopes,
                                            !.data = answer] :
                               token \in BearerChoices,
                               required_scopes \in RequiredScopeChoices,
                               answer \in AuthAnswers}]
    /\ warm = IdleWarm
    /\ faults = 0 /\ pushed = 0
    /\ hist = NoHistory

NextDependency == \E v \in ValIds : dependency(v)

DependencySpec == InitDependency /\ [][NextDependency]_vars

\* One request to an app built by create_app with no auth client: an action
\* with or without a path_params_model and a request_model, a path whose
\* parameter is one of the literals or not, a body whose value is an int, a
\* string, null or absent
InitApp ==
    /\ now = 0
    /\ tokens = StoredRows
    /\ cache = <<>> /\ revoked_tokens = {}
    /\ queue = <<>> /\ slots = <<>>
    /\ running = FALSE /\ task = 0 /\ stopping = FALSE
    /\ loops = [i \in LoopIds |-> IdleLoop]
    /\ subs = <<>>
    /\ vals \in [ValIds ->
          {[IdleVal EXCEPT !.pc = "endpoint",
                           !.data = [action |-> [path_params_model |-> pm,
                                                 request_model |-> rm],
                                     request |-> [path_params |-> [action |-> p],
                                                  body |-> b]]] :
              pm \in BOOLEAN, rm \in BOOLEAN,
              p \in {"start", "stop", "invalid"},
              b \in {[value |-> J("int", 0)], [value |-> J("int", 1)],
                     [value |-> J("str", "not_an_int")],
                     [value |-> J("null", Nil)], [other |-> J("int", 1)]}}]
    /\ warm = IdleWarm
    /\ faults = 0 /\ pushed = 0
    /\ hist = NoHistory

NextApp == \E v \in ValIds : endpoint(v)

AppSpec == InitApp /\ [][NextApp]_vars

----------------------------------------------------------------------------
(* Properties of the validation path (StoreSpec) *)

\* C1: a ValidateToken call that started after a REVOKE_TOKEN of its token had
\* returned success answers token_revoked, whatever the cache holds
RevokedNeverValid ==
    \A v \in ValIds :
        (vals[v].pc = "done" /\ vals[v].afterRevoke)
            => vals[v].verdict = Invalid("token_revoked")

\* C1 happens: such a call has answered while the cache holds a stale entry
\* with revoked = "0" for the revoked hash
RevokedWithStaleEntry ==
    \E v \in ValIds :
        /\ vals[v].pc = "done"
        /\ vals[v].afterRevoke
        /\ vals[v].verdict = Invalid("token_revoked")
        /\ Sha256(vals[v].token) \in DOMAIN cache
        /\ cache[Sha256(vals[v].token)].revoked = "0"

\* C2: a ValidateToken call on a token that is not revoked and whose stored
\* expires_at is in the past answers token_expired (taken in its plainest
\* case: the token is expired, and no command is being executed, both when the
\* call starts and when it answers)
ExpiredNeverValid ==
    \A v \in ValIds :
        (vals[v].pc = "done" /\ vals[v].expired)
            => vals[v].verdict = Invalid("token_expired")

----------------------------------------------------------------------------
(* Properties of the command pipeline (Spec, FairSpec) *)

\* C3: the Revocation Set is append-only: no step removes a member
RevocationSetAppendOnly == [][revoked_tokens \subseteq revoked_tokens']_vars

\* C3 happens: a hash is in the set, two commands have been executed since the
\* start and the processor has been stopped
RevokedSetKept ==
    /\ revoked_tokens # {}
    /\ Cardinality(hist.finished) >= 2
    /\ ~running /\ ~stopping /\ task # 0

\* the loop tasks that are executing a handler
Executing == {i \in LoopIds : loops[i].pc \in HandlerPcs}

FifoOrder ==
    \A b \in hist.started : \A a \in DOMAIN subs :
        a < b => a \in hist.finished

\* C5 happens: the handlers of two commands have started
TwoHandlersStarted == Cardinality(hist.started) >= 2

\* the processor is done with the item: it is neither queued nor in flight
Settled(n) == n \in hist.dequeued /\ ~InFlight(n)

Failed == faults > 0 \/ hist.garbled # {}

\* C7: after a failure, while running is true, every command that is queued
\* is eventually executed
SurvivesFailure ==
    \A n \in 1..MaxCmds :
        [](( /\ Failed
             /\ running
             /\ n \in DOMAIN subs
             /\ Queued(n) )
           => <>(n \in hist.finished \/ ~running))

\* C7 happens: the handler of the first command raised and the second
\* command, still queued then, has been executed by the running processor
ExecutedAfterFailure ==
    /\ 1 \in hist.raised
    /\ 2 \in hist.finished \ hist.raised
    /\ running

\* C10: no shared store holds the raw secret: not the rows, not the cache, not
\* the queue, not the rendezvous slots
SecretNeverStored ==
    /\ \A id \in DOMAIN tokens : "token" \notin DOMAIN tokens[id]
    /\ \A h \in DOMAIN cache : "token" \notin DOMAIN cache[h]
    /\ \A k \in DOMAIN queue :
          IsJson(queue[k].text) =>
              "token" \notin DOMAIN JsonLoads(queue[k].text).data
    /\ \A k \in DOMAIN slots : "token" \notin DOMAIN JsonLoads(slots[k].text)

----------------------------------------------------------------------------
(* Properties of the rendezvous (WaitSpec, FairWaitSpec) *)

PendingAtTimeout ==
    \A n \in DOMAIN subs : subs[n].pc = "timeout" => subs[n].pending

TimedOut(n) == n \in DOMAIN subs /\ subs[n].pc = "timeout"

\* C9 as amended: the timeout does not cancel the command: raising it changes
\* neither the queue nor the processor nor the stores; the command is then in
\* the queue, in flight or already executed; and while the processor runs it
\* is executed
TimeoutKeepsCommand ==
    /\ [][(\E n \in DOMAIN subs : subs[n].pc = "poll" /\ subs'[n].pc = "timeout")
            => UNCHANGED <<queue, loops, storeVars, slots>>]_vars
    /\ [](\A n \in DOMAIN subs :
            subs[n].pc = "timeout" =>
                Queued(n) \/ InFlight(n) \/ n \in hist.finished)
    /\ \A n \in 1..MaxCalls :
          [](TimedOut(n) /\ running => <>(n \in hist.finished \/ ~running))

\* C9 happens: the command was pending when its submitter timed out and has
\* been executed since
ExecutedAfterTimeout ==
    \E n \in DOMAIN subs :
        /\ subs[n].pc = "timeout"
        /\ subs[n].pending
        /\ n \in hist.finished
        /\ n \in hist.written

----------------------------------------------------------------------------
(* Properties of the handlers (Spec) *)

\* the payloads of successful CREATE_TOKEN commands in the rendezvous slots
CreatePayloads ==
    {k \in DOMAIN slots : "token" \in DOMAIN JsonLoads(slots[k].text)}

----------------------------------------------------------------------------
(* Properties of the handlers over time (HandlerSpec) *)

\* max(current_expires_at, now): the later of the expiry before the extend and
\* the time of the extend
LaterOf(before, at) ==
    IF before # None /\ before[1] > at THEN before[1] ELSE at

\* C12: EXTEND_TOKEN on an existing token sets expires_at to
\* max(current expires_at, now) + extend_days; an expiry already in the past
\* is anchored to now
ExtendAnchorsAtLater ==
    \A e \in hist.extended :
        e.after = <<LaterOf(e.before, e.at) + e.days>>

\* C13: an extend of a token with expires_at = T by d days yields
\* expires_at >= T + d, and two successive extends by d1 and d2 days yield
\* expires_at >= T + d1 + d2
ExtendAdditive ==
    /\ \A e \in hist.extended :
          e.before # None => e.after[1] >= e.before[1] + e.days
    /\ \A e1, e2 \in hist.extended :
          ( /\ e1.token_id = e2.token_id
            /\ e2.seq = e1.seq + 1
            /\ e1.before # None )
          => /\ e2.before = e1.after
             /\ e2.after[1] >= e1.before[1] + e1.days + e2.days

\* C13 happens: a token with an expiry has been extended twice by one day, the
\* second time after the clock has advanced, and its row holds the sum
ExtendedTwice ==
    \E e1, e2 \in hist.extended :
        /\ e1.token_id = e2.token_id
        /\ e2.seq = e1.seq + 1
        /\ e1.before # None
        /\ e1.days = 1 /\ e2.days = 1
        /\ e2.at > e1.at
        /\ tokens[e1.token_id].expires_at = <<e1.before[1] + 2>>
        /\ Cardinality(hist.finished) = 2

\* loop task i is executing a REVOKE_TOKEN of a token whose revoke has
\* succeeded before
SecondRevoke(i) ==
    /\ loops[i].pc \in {"revoke_db", "revoke_delete", "revoke_sadd"}
    /\ loops[i].cmd.data.token_id \in DOMAIN tokens
    /\ tokens[loops[i].cmd.data.token_id].token_hash \in hist.revokeDone

\* C14: REVOKE_TOKEN is idempotent: the revoke of an already-revoked token
\* succeeds and leaves the row, the Revocation Set and the Cache as the first
\* revoke left them
RevokeIdempotent ==
    [][\A i \in LoopIds :
          (SecondRevoke(i) /\ loops'[i] # loops[i])
          => /\ tokens' = tokens
             /\ revoked_tokens' = revoked_tokens
             /\ cache' = cache
             /\ "error" \notin DOMAIN loops'[i].result]_vars

----------------------------------------------------------------------------
(* Properties of one ValidateToken call (StoreSpec) *)

SourceOrder == <<"revoked_tokens", "cache", "store">>

\* C15: every ValidateToken call reads the Revocation Set, then the Cache,
\* then the Durable Store, and reads the next source only after a miss: a hash
\* in the Revocation Set gives token_revoked and no further read, a cache hit
\* gives the verdict without a read of the store
ReadsInOrder ==
    \A v \in ValIds :
        LET reads == vals[v].reads IN
        /\ Len(reads) <= Len(SourceOrder)
        /\ \A k \in DOMAIN reads :
              /\ reads[k].source = SourceOrder[k]
              /\ k < Len(reads) => ~reads[k].hit
        /\ vals[v].pc = "done" =>
              /\ reads # <<>>
              /\ reads[Len(reads)].hit \/ Len(reads) = Len(SourceOrder)
              /\ reads[1].hit => vals[v].verdict = Invalid("token_revoked")

\* C15 happens: a call has its verdict from the row it read in the store, after
\* a miss in the Revocation Set and a miss in the Cache
AnsweredFromStore ==
    \E v \in ValIds :
        /\ vals[v].pc = "done"
        /\ Len(vals[v].reads) = 3
        /\ vals[v].reads[3].hit
        /\ vals[v].verdict.valid

----------------------------------------------------------------------------
(* Properties of _validate_from_data (VerdictSpec) *)

\* the scopes a projection holds
Held(data) == Range(data.scopes) \ {","}

ExpiredAt(data) ==
    data.expires_at # EmptyStr /\ FromIsoFormat(data.expires_at) < now

\* C16: the verdict on a projection: revoked gives token_revoked; otherwise an
\* expires_at that is set and in the past gives token_expired; otherwise a
\* required scope that is not held gives insufficient_scopes; otherwise valid
\* with the held scopes, the token_id and the name
VerdictPrecedence ==
    \A v \in ValIds :
        vals[v].pc = "verdict" =>
            LET data == vals[v].data
                verdict == vals[v].verdict IN
            IF data.revoked = "1" THEN verdict = Invalid("token_revoked")
            ELSE IF ExpiredAt(data) THEN verdict = Invalid("token_expired")
            ELSE IF Range(vals[v].required) \ Held(data) # {}
            THEN verdict = Invalid("insufficient_scopes")
            ELSE /\ verdict.valid
                 /\ Range(verdict.scopes) = Held(data)
                 /\ Join(verdict.scopes) = data.scopes
                 /\ verdict.token_id = data.token_id
                 /\ verdict.name = data.name

\* C16 happens: a projection that is revoked, expired and lacks a required
\* scope has been judged token_revoked
RevokedExpiredJudged ==
    \E v \in ValIds :
        /\ vals[v].pc = "verdict"
        /\ vals[v].data.revoked = "1"
        /\ ExpiredAt(vals[v].data)
        /\ Range(vals[v].required) \ Held(vals[v].data) # {}
        /\ vals[v].verdict = Invalid("token_revoked")

----------------------------------------------------------------------------
(* Properties of a repeated ValidateToken call (RepeatSpec) *)

\* the call read the row in the Durable Store and repopulated the cache
Repopulated(reads) == Len(reads) = 3 /\ reads[3].hit

\* C17: after a call that missed the cache and repopulated it, an immediate
\* second call with the same token and required scopes is answered from the
\* cache, with no read of the Durable Store, and has the same outcome
SecondCallFromCache ==
    \A v \in ValIds :
        ( /\ vals[v].pc = "done"
          /\ vals[v].prev # Nil
          /\ Repopulated(vals[v].prev.reads) )
        => /\ Len(vals[v].reads) = 2
           /\ vals[v].reads[2].source = "cache"
           /\ vals[v].reads[2].hit
           /\ vals[v].verdict = vals[v].prev.verdict

\* C17 happens: a valid verdict has been repeated from the cache after a
\* repopulation
ValidRepeated ==
    \E v \in ValIds :
        /\ vals[v].pc = "done"
        /\ vals[v].prev # Nil
        /\ Repopulated(vals[v].prev.reads)
        /\ vals[v].verdict.valid
        /\ Len(vals[v].reads) = 2

----------------------------------------------------------------------------
(* Properties of the read path with failing store calls (FailingReadSpec) *)

ValidationErrors ==
    {"token_not_found", "token_revoked", "token_expired", "insufficient_scopes"}

\* C18: ValidateToken never raises: every call that has ended has returned a
\* structured outcome, valid or with one of the four errors, also when a cache
\* or store call fails
ValidateNeverRaises ==
    \A v \in ValIds :
        /\ vals[v].pc # "raised"
        /\ vals[v].pc = "done" =>
              \/ vals[v].verdict.valid
              \/ vals[v].verdict.error \in ValidationErrors

----------------------------------------------------------------------------
(* Who writes the stores (StoreSpec) *)

\* a command handler takes a step
HandlerStep ==
    \E i \in LoopIds : loops[i].pc \in HandlerPcs /\ loops'[i] # loops[i]

\* Redis drops a cache entry whose TTL has run out
Eviction ==
    /\ \E h \in DOMAIN cache : cache[h].ttl /\ cache' = Drop(cache, h)
    /\ tokens' = tokens
    /\ revoked_tokens' = revoked_tokens

OnlyEntryChanged(h) ==
    /\ DOMAIN cache' \ {h} = DOMAIN cache \ {h}
    /\ \A k \in DOMAIN cache \ {h} : cache'[k] = cache[k]

\* a ValidateToken call or the cache warm takes its hset or expire step
ReaderFill ==
    \/ \E v \in ValIds :
          /\ vals[v].pc \in {"hset", "expire"}
          /\ vals'[v] # vals[v]
          /\ OnlyEntryChanged(Sha256(vals[v].token))
    \/ /\ warm.pc \in {"hset", "expire"}
       /\ warm' # warm
       /\ OnlyEntryChanged(warm.cur.token_hash)

----------------------------------------------------------------------------
(* The end-to-end scenario (ScenarioSpec) *)

\* C20: after CreateToken(scopes=[read], ttl_days=30) has returned a token,
\* ValidateToken(token, [read]) is valid with scopes [read],
\* ValidateToken(token, [write]) is insufficient_scopes, RevokeToken(token_id)
\* succeeds, and ValidateToken(token, []) is then token_revoked
ScenarioHolds ==
    /\ \A v \in ValIds :
          vals[v].pc = "done" =>
              IF vals[v].required = <<"read">>
              THEN vals[v].verdict =
                       Valid(<<"read">>, subs[1].result.token_id, "svc")
              ELSE IF vals[v].required = <<"write">>
              THEN /\ vals[v].verdict = Invalid("insufficient_scopes")
                   /\ vals[v].prev.verdict.valid
              ELSE /\ vals[v].verdict = Invalid("token_revoked")
                   /\ vals[v].prev.verdict = Invalid("insufficient_scopes")
    /\ (2 \in DOMAIN subs /\ subs[2].pc = "returned") =>
          /\ "error" \notin DOMAIN subs[2].result
          /\ subs[2].result.success
          /\ subs[2].result.token_id = subs[1].result.token_id.str

\* C20 happens: the scenario has run to its end
ScenarioDone ==
    /\ 2 \in DOMAIN subs /\ subs[2].pc = "returned"
    /\ \E v \in ValIds :
          /\ vals[v].pc = "done"
          /\ vals[v].required = <<>>
          /\ vals[v].verdict = Invalid("token_revoked")

----------------------------------------------------------------------------
(* REVOKE_TOKEN followed by EXTEND_TOKEN (RevokeExtendSpec) *)

\* the result written for command n, once it is written
ResultOf(n) == JsonLoads(Get(slots, ResponseKey(n)))

\* C21: REVOKE_TOKEN and then EXTEND_TOKEN enqueued for the same token are
\* applied in that order and both succeed; afterwards the row is revoked with
\* an updated expires_at, the hash is in the Revocation Set, and a
\* ValidateToken call that starts after the revoke returns token_revoked
RevokeThenExtend ==
    /\ 2 \in hist.started => 1 \in hist.finished
    /\ \A n \in hist.written : "error" \notin DOMAIN ResultOf(n)
    /\ 2 \in hist.finished =>
          /\ tokens[1].revoked
          /\ tokens[1].expires_at # None
          /\ \E e \in hist.extended :
                e.seq = 2 /\ e.after = tokens[1].expires_at /\ e.before = None
          /\ tokens[1].token_hash \in revoked_tokens
    /\ \A v \in ValIds :
          (vals[v].pc = "done" /\ vals[v].afterRevoke)
          => vals[v].verdict = Invalid("token_revoked")

\* C21 happens: both commands have returned success, the row has its new
\* expiry, and a ValidateToken call for the token that started after the
\* revoke has been answered token_revoked
RevokedAfterExtend ==
    /\ hist.written = {1, 2}
    /\ ResultOf(2).success
    /\ tokens[1].expires_at # None
    /\ \E v \in ValIds :
          /\ vals[v].pc = "done"
          /\ vals[v].token = RawToken(1)
          /\ vals[v].afterRevoke
          /\ vals[v].verdict = Invalid("token_revoked")

----------------------------------------------------------------------------
(* The life of one command (Spec) *)

\* how often the processor has taken step ev for command n
Times(ev, n) ==
    Cardinality({k \in DOMAIN hist.log : hist.log[k] = [ev |-> ev, seq |-> n]})

\* C22: each command pushed onto the queue is consumed once: it is taken off
\* the queue at most once, its handler is invoked at most once, also across
\* stop() and start(), and at most one result is written to its response_key
ConsumedOnce ==
    \A n \in 1..pushed :
        /\ Times("blpop", n) <= 1
        /\ Times("handler", n) <= 1
        /\ Times("setex", n) <= 1
        /\ Times("handler", n) <= Times("blpop", n)
        /\ Queued(n) => Times("blpop", n) = 0

\* C22 happens: both commands were taken, executed and answered once, and the
\* loop task has ended after a stop() with nothing left in the queue
ConsumedAndStopped ==
    /\ pushed = 2
    /\ \A n \in 1..2 : Times("blpop", n) = 1 /\ Times("handler", n) = 1
                        /\ Times("setex", n) = 1
    /\ queue = <<>>
    /\ ~running
    /\ task # 0 /\ loops[task].pc = "done"

----------------------------------------------------------------------------
(* The cache warm (WarmSpec) *)

\* the tokens of the Durable Store that are neither revoked nor expired
Usable ==
    {id \in DOMAIN tokens :
        /\ ~tokens[id].revoked
        /\ (tokens[id].expires_at = None \/ tokens[id].expires_at[1] > now)}

\* the entry of token id is the projection of its row, not revoked
WarmEntry(c, id) ==
    /\ tokens[id].token_hash \in DOMAIN c
    /\ [c[tokens[id].token_hash] EXCEPT !.ttl = FALSE] =
          CacheFields(id, tokens[id].name, tokens[id].scopes, tokens[id].expires_at,
                      FALSE)
    /\ c[tokens[id].token_hash].revoked = "0"

\* C23: a cache warm with no command in flight writes a Cache Entry for
\* exactly the tokens that are neither revoked nor expired in the Durable
\* Store, each with revoked = "0" and the scopes and expires_at of its row and
\* with the TTL, and it writes no entry for a revoked or an expired token
WarmWritesActive ==
    /\ [](\A h \in DOMAIN cache :
            \E id \in Usable : tokens[id].token_hash = h /\ WarmEntry(cache, id))
    /\ [][(warm.pc # "off" /\ warm'.pc = "off") =>
             /\ DOMAIN cache' = {tokens[id].token_hash : id \in Usable}
             /\ \A id \in Usable : WarmEntry(cache', id)
             /\ \A h \in DOMAIN cache' : cache'[h].ttl]_vars

\* C23 happens: the warm has ended, one token has its entry and the other, which
\* is revoked or expired, has none
WarmedOneOfTwo ==
    /\ warm.pc = "off"
    /\ Cardinality(DOMAIN cache) = 1
    /\ Cardinality(Usable) = 1
    /\ \E id \in DOMAIN tokens : tokens[id].revoked

----------------------------------------------------------------------------
(* The cache warm and the outcome of ValidateToken (WarmedSpec) *)

\* the outcome of validate_token over an empty cache: the Revocation Set, then
\* the row of the Durable Store
LazyVerdict(token, required_scopes) ==
    IF SIsMember(revoked_tokens, Sha256(token)) THEN Invalid("token_revoked")
    ELSE IF RowsByHash(Sha256(token)) = {} THEN Invalid("token_not_found")
    ELSE LET id == CHOOSE x \in RowsByHash(Sha256(token)) : TRUE IN
         ValidateFromData(CacheFields(id, tokens[id].name, tokens[id].scopes,
                                      tokens[id].expires_at, tokens[id].revoked),
                          required_scopes)

\* C24: the cache warm is not needed for correctness: whatever the
\* interleaving of the warm with the command handlers, a ValidateToken call
\* has the outcome it would have over a cache that started empty, the one the
\* Revocation Set and the Durable Store give
WarmNotNeeded ==
    \A v \in ValIds :
        vals[v].pc = "done" =>
            vals[v].verdict = LazyVerdict(vals[v].token, vals[v].required)

----------------------------------------------------------------------------
(* Failures of the handlers' cache calls (Spec) *)

\* C25: a cache write or delete that fails after the handler's durable write
\* is not fatal: the command reports its successful result to the submitter,
\* not command_failed
CacheFailureNonFatal ==
    \A n \in hist.cacheRaised :
        n \in hist.written =>
            Get(slots, ResponseKey(n)) # JsonDumps(CommandFailed)

----------------------------------------------------------------------------
(* Commands that name no row (HandlerSpec) *)

\* loop task i is executing or answering a REVOKE_TOKEN or EXTEND_TOKEN whose
\* token_id has no row in the Durable Store
NamesNoRow(i) ==
    /\ loops[i].pc \in InFlightPcs
    /\ loops[i].cmd # Nil
    /\ loops[i].cmd.type \in {REVOKE_TOKEN, EXTEND_TOKEN}
    /\ loops[i].cmd.data.token_id \notin DOMAIN tokens

\* C26: REVOKE_TOKEN or EXTEND_TOKEN for a token_id that has no row returns
\* {error: token_not_found}: the handler returns it at once, it is what is
\* written to the response_key, and from the dispatch to the response the
\* Durable Store, the Cache and the Revocation Set are unchanged
NotFoundChangesNothing ==
    [][\A i \in LoopIds :
          NamesNoRow(i) =>
             /\ UNCHANGED storeVars
             /\ ((loops[i].pc \in HandlerPcs /\ loops'[i] # loops[i]) =>
                   /\ loops'[i].pc = "respond"
                   /\ loops'[i].result = TokenNotFound(loops[i].cmd.data.token_id))
             /\ ((loops[i].pc = "respond" /\ loops'[i] # loops[i]) =>
                   JsonLoads(Get(slots', loops[i].cmd.response_key)) =
                       TokenNotFound(loops[i].cmd.data.token_id))]_vars

\* C26 happens: a token was created and is in the cache, and the command after
\* it, which names no row, has been answered with token_not_found
NotFoundAnswered ==
    /\ pushed = 2
    /\ 2 \in hist.written
    /\ cache # <<>>
    /\ JsonLoads(Get(slots, ResponseKey(2))) = TokenNotFound(NoSuchId)

----------------------------------------------------------------------------
(* The failures of the token-creation endpoint (EndpointSpec) *)

\* C27: the token-creation endpoint gives three distinguishable failures: a
\* body that fails the request validation is answered 422 and nothing else is,
\* a TimeoutError of submit_command is answered 504 and nothing else is, and
\* a command_failed result of the handler is answered 400 and nothing else is
CreateFailuresDistinct ==
    \A n \in DOMAIN subs :
        subs[n].pc = "replied" =>
            /\ (subs[n].outcome = "rejected") <=> (subs[n].response.status = 422)
            /\ (subs[n].outcome = "timeout") <=> (subs[n].response.status = 504)
            /\ (subs[n].outcome = "returned" /\ subs[n].result = CommandFailed)
                   <=> (subs[n].response.status = 400)

\* C27 happens: one request was rejected, one timed out and one was answered
\* with the failure of its handler
ThreeFailures ==
    /\ 0 \in DOMAIN subs
    /\ \E n, m \in DOMAIN subs :
          /\ subs[n].pc = "replied" /\ subs[n].outcome = "timeout"
          /\ subs[m].pc = "replied" /\ subs[m].result = CommandFailed

----------------------------------------------------------------------------
(* The dependency of the protected endpoints (DependencySpec) *)

\* C28: the dependency built by require_scopes lets a request through, with
\* the token_info, only when the auth service answered valid = true; for an
\* invalid answer it raises 403 when the error is insufficient_scopes and 401
\* when it is token_expired, token_revoked, token_not_found or anything else
OnlyValidPasses ==
    \A v \in ValIds :
        vals[v].pc = "done" =>
            LET answer == vals[v].data
                out == vals[v].verdict IN
            /\ ("token_info" \in DOMAIN out) <=>
                   (answer.exc = "" /\ answer.status = 200 /\ answer.json.valid)
            /\ ("token_info" \in DOMAIN out) =>
                   /\ out.token_info.valid
                   /\ out.token_info.scopes = answer.json.scopes
                   /\ out.token_info.token_id = answer.json.token_id
            /\ (answer.exc = "" /\ answer.status = 200 /\ ~answer.json.valid) =>
                   out = [raised |->
                            IF "error" \in DOMAIN answer.json
                               /\ answer.json.error = "insufficient_scopes"
                            THEN 403 ELSE 401]

\* C28 happens: the auth service answered invalid with an error that is none
\* of the four, and the request was refused with 401
RefusedForOtherError ==
    \E v \in ValIds :
        /\ vals[v].pc = "done"
        /\ vals[v].data.status = 200
        /\ ~vals[v].data.json.valid
        /\ "error" \in DOMAIN vals[v].data.json
        /\ vals[v].data.json.error = "rate_limited"
        /\ vals[v].verdict = [raised |-> 401]

----------------------------------------------------------------------------
(* Validation of the requests to an action (AppSpec) *)

\* the request of call v fails the path_params_model of its action
BadPath(v) ==
    /\ vals[v].data.action.path_params_model
    /\ ~IsPathParams(vals[v].data.request.path_params)

\* the request of call v fails the request_model of its action
BadBody(v) ==
    /\ vals[v].data.action.request_model
    /\ ~IsRequestPayload(vals[v].data.request.body)

----------------------------------------------------------------------------
(* The order of the effects of REVOKE_TOKEN (HandlerSpec) *)

\* the place of step ev of command n in the processor's log, 0 when it has
\* not been taken
Pos(ev, n) ==
    IF Times(ev, n) = 0 THEN 0
    ELSE CHOOSE k \in DOMAIN hist.log : hist.log[k] = [ev |-> ev, seq |-> n]

\* the last step of the processor is step ev of the command loop task i holds
Logged(h, ev, i) ==
    Len(h.log) > 0 /\ h.log[Len(h.log)] = [ev |-> ev, seq |-> loops[i].seq]

----------------------------------------------------------------------------
(* Revoked rows and the Revocation Set (Spec) *)

\* C31: whenever no REVOKE_TOKEN handler is in progress, every token whose row
\* has revoked = true has its hash in the Revocation Set, also when a step of
\* the handler after the durable update failed
RevokedRowsInSet ==
    (\A i \in LoopIds : loops[i].pc \notin {"revoke_db", "revoke_delete", "revoke_sadd"})
        => \A id \in DOMAIN tokens :
              tokens[id].revoked => SIsMember(revoked_tokens, tokens[id].token_hash)

----------------------------------------------------------------------------
(* The cache after EXTEND_TOKEN and REVOKE_TOKEN (StoreSpec) *)

\* C32: after a successful EXTEND_TOKEN has completed, the Cache Entry of the
\* token's hash is absent or carries the new expires_at, so that every
\* ValidateToken call that starts afterwards judges expiry against it, also
\* when a call that read the row before the extend repopulates the cache
\* after the extend's delete
ExtendedEntryFresh ==
    \A e \in hist.extended :
        (e.seq \in hist.written /\ tokens[e.token_id].expires_at = e.after) =>
            LET h == tokens[e.token_id].token_hash IN
            h \in DOMAIN cache => cache[h].expires_at = IsoFormat(e.after[1])

\* C33: after a successful REVOKE_TOKEN has completed, the cache holds no
\* entry with revoked = "0" for the token's hash, under every interleaving
\* with repopulations by ValidateToken and with the cache warm
RevokedEntryGone ==
    \A n \in hist.written :
        \A id \in DOMAIN tokens :
            ( /\ tokens[id].revoked
              /\ JsonLoads(Get(slots, ResponseKey(n))) =
                    RevokeResult([token_id |-> id,
                                  revoked_at |-> tokens[id].revoked_at[1]]) )
            => LET h == tokens[id].token_hash IN
               h \in DOMAIN cache => cache[h].revoked # "0"

----------------------------------------------------------------------------
(* What a ValidateToken call changes (StoreSpec) *)

\* C34: a ValidateToken call leaves the Durable Store, the Revocation Set and
\* the Command Queue (and the response slots) unchanged, whatever its outcome;
\* the only thing a step of it may change is the Cache Entry of the validated
\* hash, and only after a miss in the cache and a row found in the store
ValidateChangesOnlyItsEntry ==
    [][\A v \in ValIds :
          vals'[v] # vals[v] =>
             /\ UNCHANGED <<tokens, revoked_tokens, queue, slots, pushed>>
             /\ cache' # cache =>
                   /\ OnlyEntryChanged(Sha256(vals[v].token))
                   /\ Sha256(vals[v].token) \in DOMAIN cache'
                   /\ Repopulated(vals[v].reads)
                   /\ ~vals[v].reads[2].hit]_vars

\* C34 happens: a call that was refused for its scopes has repopulated the
\* entry of its token while a command was waiting in the queue
RefusedCallFilledCache ==
    \E v \in ValIds :
        /\ vals[v].pc = "done"
        /\ Repopulated(vals[v].reads)
        /\ vals[v].verdict = Invalid("insufficient_scopes")
        /\ Sha256(vals[v].token) \in DOMAIN cache
        /\ queue # <<>>

----------------------------------------------------------------------------
(* Validation of an unknown token (RepeatSpec) *)

\* the call found the hash in none of the Revocation Set, the cache and the
\* Durable Store
FoundNowhere(reads) ==
    Len(reads) = 3 /\ \A k \in 1..3 : ~reads[k].hit

\* C35: a ValidateToken call whose hash is in none of the Revocation Set, the
\* cache and the Durable Store returns token_not_found and leaves no Cache
\* Entry for the hash, and a repeated call with the same token reads the
\* Durable Store again
UnknownTokenNotCached ==
    \A v \in ValIds :
        /\ (vals[v].pc = "done" /\ FoundNowhere(vals[v].reads)) =>
              /\ vals[v].verdict = Invalid("token_not_found")
              /\ Sha256(vals[v].token) \notin DOMAIN cache
        /\ ( /\ vals[v].pc = "done"
             /\ vals[v].prev # Nil
             /\ FoundNowhere(vals[v].prev.reads) ) =>
              /\ Len(vals[v].reads) = 3
              /\ vals[v].reads[3].source = "store"
              /\ vals[v].verdict = Invalid("token_not_found")

\* C35 happens: an unknown token has been validated twice in a row, and both
\* calls went to the Durable Store and found no row
UnknownTokenAskedTwice ==
    \E v \in ValIds :
        /\ vals[v].pc = "done"
        /\ vals[v].prev # Nil
        /\ FoundNowhere(vals[v].prev.reads)
        /\ FoundNowhere(vals[v].reads)
        /\ vals[v].reads[3].source = "store"

----------------------------------------------------------------------------
(* The TTL of the cache entries (Spec) *)

\* a writer of the cache has written the fields of an entry and not yet made
\* its expire call
CacheWriteInProgress ==
    \/ \E i \in LoopIds : loops[i].pc = "create_expire"
    \/ \E v \in ValIds : vals[v].pc = "expire"
    \/ warm.pc = "expire"

\* C36: every Cache Entry carries a TTL: whenever no cache write is in
\* progress, each key present in the cache has its expiry set, also when the
\* call after the field write fails
EveryEntryHasTTL ==
    ~CacheWriteInProgress => \A h \in DOMAIN cache : cache[h].ttl

----------------------------------------------------------------------------
(* stop() (StopSpec) *)

\* no loop task is alive: none was created, or each one has ended
NoConsumer == \A i \in LoopIds : loops[i].pc \in {"none", "done"}

\* C37: stop() terminates and drains: the call eventually returns; a loop
\* task that checks the run flag after stop() has cleared it ends without
\* another blpop; when stop() has returned no loop task is alive, every command
\* taken off the queue is settled, with its response published unless the
\* item was undecodable or the publishing raised; and the commands still
\* queued stay in the queue
StopDrains ==
    /\ stopping ~> ~stopping
    /\ [](( ~running /\ ~stopping ) =>
            /\ NoConsumer
            /\ \A n \in hist.dequeued :
                  /\ Settled(n)
                  /\ n \in hist.written \cup hist.writeFailed \cup hist.garbled)
    /\ [][ /\ \A i \in LoopIds :
                (loops[i].pc = "top" /\ ~running) => loops'[i].pc \in {"top", "done"}
           /\ (~running /\ ~stopping) => Len(queue') >= Len(queue)
           /\ (stopping /\ ~stopping') => queue' = queue ]_vars

\* C37 happens: stop() has returned after the loop published the result of
\* one command, and another command is still in the queue
StoppedWithQueued ==
    /\ ~running /\ ~stopping
    /\ task # 0 /\ loops[task].pc = "done"
    /\ hist.written # {}
    /\ queue # <<>>

----------------------------------------------------------------------------
(* start() on a running processor (Spec) *)

\* the loop tasks that are alive: created and not yet ended
Consumers == {i \in LoopIds : loops[i].pc \notin {"none", "done"}}

\* C38: start() is a no-op on a running processor: while running is true no
\* step creates a loop task or replaces the task, so that the one task that
\* start() created is the only consumer of the queue
StartOnceRunning ==
    /\ [](running => Consumers = {task})
    /\ [][running => /\ task' = task
                     /\ Consumers' \subseteq Consumers]_vars

\* C38 happens: the processor is running, its task is handling a command that
\* it took off the queue, and no other loop task exists
OneConsumerAtWork ==
    /\ running
    /\ loops[task].pc \in HandlerPcs
    /\ \A i \in LoopIds \ {task} : loops[i].pc = "none"
    /\ queue # <<>>

----------------------------------------------------------------------------
(* The response key and the wait loop in time (SlotSpec) *)

\* submit_command call n makes a poll that finds nothing
EmptyPoll(n) == subs[n].pc = "poll" /\ subs'[n].polls = subs[n].polls + 1

\* C39: a response is never lost to the expiry of its key while its submitter
\* is still polling: while the call is in its wait loop the written result
\* stays under the response key, every poll made after the write finds it,
\* and the call that returns gives that result
ResponseOutlivesWait ==
    /\ [](\A n \in DOMAIN subs :
            /\ (subs[n].pc = "poll" /\ n \in hist.written) =>
                  /\ ResponseKey(n) \in DOMAIN slots
                  /\ slots[ResponseKey(n)].age < ResponseLifetime
            /\ subs[n].pc = "returned" => n \in hist.written)
    /\ [][\A n \in DOMAIN subs :
            /\ (EmptyPoll(n) => n \notin hist.written)
            /\ (subs[n].pc = "poll" /\ subs'[n].pc = "returned") =>
                  subs'[n].result = JsonLoads(slots[ResponseKey(n)].text)]_vars

\* C39 happens: the call has returned the result that the processor wrote
\* while the call was waiting, and the response key has expired since
ReturnedBeforeExpiry ==
    \E n \in DOMAIN subs :
        /\ subs[n].pc = "returned"
        /\ n \in hist.written
        /\ ResponseKey(n) \notin DOMAIN slots

----------------------------------------------------------------------------
(* EXTEND_TOKEN and the lifetime of a token (HandlerSpec) *)

\* expiry a is no earlier than expiry b, None (never expires) being later
\* than every timestamp
NoEarlier(a, b) == a = None \/ (b # None /\ a[1] >= b[1])

\* C40 as stated: for extend_days >= 0 the expires_at after an EXTEND_TOKEN
\* is no earlier than the one before it, a null expires_at counting as later
\* than every timestamp: a never-expiring token stays never-expiring
ExtendNeverShortens ==
    \A e \in hist.extended :
        e.days >= 0 => NoEarlier(e.after, e.before)

\* C40 as amended: for extend_days >= 0 the expires_at of a token that has an
\* expiry is no earlier after an EXTEND_TOKEN than before it; a never-expiring
\* token gets the expiry now + extend_days and so becomes an expiring one
ExtendNeverShortensAnExpiry ==
    \A e \in hist.extended :
        e.days >= 0 =>
            /\ e.after # None
            /\ e.before # None => e.after[1] >= e.before[1]
            /\ e.before = None => e.after = <<e.at + e.days>>

\* C40 happens: a never-expiring token has been extended and its row now holds
\* an expiry, and a token with an expiry has been extended by a day
NeverExpiringExtended ==
    /\ \E e \in hist.extended :
          /\ e.before = None
          /\ tokens[e.token_id].expires_at = <<e.at + e.days>>
    /\ \E e \in hist.extended :
          /\ e.before # None
          /\ e.days = 1
          /\ tokens[e.token_id].expires_at = e.after

====
